---------------------------- MODULE Spec2Model ----------------------------
(***************************************************************************)
(* BurgerWinds: the App component's forecast refresh, "current hour"       *)
(* selection, message composition, schedule polling and notification       *)
(* dispatch (the App revision with both sinks, the NtfyPanel handlers of   *)
(* components/DiscordSettings.tsx, lib/format.ts, lib/openMeteo).          *)
(*                                                                         *)
(* Conventions                                                             *)
(*   - null / undefined values are the empty sequence <<>>, a present      *)
(*     value v is <<v>>;                                                   *)
(*   - an instant is a number of minutes since local midnight; the         *)
(*     browser's clock and the forecast's timezone are taken to agree;     *)
(*   - message texts are strings; the emoji of the templates are written   *)
(*     as ASCII tags and the degree sign as "deg";                         *)
(*   - timers are ideal: a 60 s interval fires exactly once in every       *)
(*     wall-clock minute after the one in which it was armed.              *)
(***************************************************************************)
EXTENDS Integers, Sequences, FiniteSets, TLC

\* ------------------------------------------------------------------ bounds
\* number of wall-clock minutes a behaviour covers
MaxMinutes == 3
\* schedule entries the panel is given
MaxSchedule == 2
\* forecast fetches in flight at once
MaxInflight == 2
\* hourly sequences of the selector check
MaxHours == 3
\* largest timestamp / reference instant of the selector check
MaxInstant == 3
\* the largest number in a stored JSON text
MaxNum == 2
\* the longest string (in pieces) of the storage check
MaxLen == 2
\* the longest array and object of the storage check
MaxItems == 2
\* the most POSTs one step issues: a manual one and one per sink
MaxPosts == 3
\* the longest hourly array of a forecast response
MaxSeries == 2
\* the turns of the compass either side of the first
MaxTurns == 1
\* the most items of the send-hours list
MaxCsv == 2

\* -------------------------------------------------------- program constants
MinutesPerDay == 24 * 60
\* first minute of the scheduling scenarios: 06:59
StartMinute == 6 * 60 + 59
\* debounce of the location search, in units of 100 ms
DebounceTicks == 3

None == <<>>
Some(v) == <<v>>
Has(o) == o # <<>>
Val(o) == o[1]
\* JavaScript truthiness of an optional number: undefined and 0 are falsy
Truthy(o) == Has(o) /\ Val(o) # 0

\* ------------------------------------------------------------ lib/format.ts
\* Math.round of the rational a / b (b > 0): floor(a/b + 1/2)
RoundDiv(a, b) == (2 * a + b) \div (2 * b)

\* JavaScript's %: the remainder has the sign of the dividend
JsRem(a, b) == IF a >= 0 THEN a % b ELSE -((-a) % b)

WindUnits == {"kmh", "kts", "mps"}
TemperatureUnits == {"celsius", "fahrenheit", "kelvin"}
ViewModes == {"casual", "surfer", "everything", "custom"}

\* Wind speeds and temperatures are held in tenths of their unit (201 is
\* 20.1 km/h, 185 is 18.5 degrees Celsius), so that Math.round rounds.
\* kmhToKts is kmh / 1.852, kmhToMps is kmh / 3.6
formatWindSpeed(valueKmh, u) ==
    IF u = "kts" THEN ToString(RoundDiv(valueKmh * 100, 1852)) \o " kt"
    ELSE IF u = "mps" THEN ToString(RoundDiv(valueKmh, 36)) \o " m/s"
    ELSE ToString(RoundDiv(valueKmh, 10)) \o " km/h"

\* celsiusToFahrenheit is c * 9/5 + 32, celsiusToKelvin is c + 273.15
formatTemperatureForDisplay(valueCelsius, u) ==
    IF u = "fahrenheit" THEN ToString(RoundDiv(9 * valueCelsius + 1600, 50)) \o "deg"
    ELSE IF u = "kelvin" THEN ToString(RoundDiv(10 * valueCelsius + 27315, 100))
    ELSE ToString(RoundDiv(valueCelsius, 10)) \o "deg"

CompassDirs ==
    << "N", "NNE", "NE", "ENE", "E", "ESE", "SE", "SSE",
       "S", "SSW", "SW", "WSW", "W", "WNW", "NW", "NNW" >>

\* Math.round((deg % 360) / 22.5) % 16, then dirs[idx]
degToCompass(deg) ==
    LET idx == JsRem(RoundDiv(2 * JsRem(deg, 360), 45), 16)
    IN  IF idx >= 0 THEN CompassDirs[idx + 1] ELSE "undefined"

\* the standalone sender's degToCompass:
\* Math.round(((deg % 360) + 360) % 360 / 22.5) % 16
senderDegToCompass(deg) ==
    LET idx == JsRem(RoundDiv(2 * JsRem(JsRem(deg, 360) + 360, 360), 45), 16)
    IN  IF idx >= 0 THEN CompassDirs[idx + 1] ELSE "undefined"

\* n.toString().padStart(2, '0')
\* toString() without padStart
Pad2NoPad(n) == ToString(n)

\* padStart(2, '0')
Pad2(n) == IF Len(ToString(n)) < 2 THEN "0" \o ToString(n) ELSE ToString(n)

\* getHours() and getMinutes() of an instant
getHours(t) == (t % MinutesPerDay) \div 60
getMinutes(t) == t % 60

\* Intl.DateTimeFormat hour: '2-digit', minute: '2-digit', hour12: false
fmtTime(t) == Pad2(getHours(t)) \o ":" \o Pad2(getMinutes(t))

\* v.toFixed(1) of a value held in tenths
toFixed1(tenths) == ToString(tenths \div 10) \o "." \o ToString(tenths % 10)

\* ------------------------------------------------------- forecast samples
\* A ForecastHour. time is an instant; windSpeed10mKmh, windGusts10mKmh,
\* temperatureC, waterTempC and waveHeightM are in tenths; the optional
\* fields are None when undefined.
Hour(t, wind, dir, temp, rain, gust, wave) ==
    [ time |-> t, windSpeed10mKmh |-> wind, windDirection10mDeg |-> dir,
      temperatureC |-> temp, humidityPct |-> 60, cloudCoverPct |-> 40,
      precipitationProbabilityPct |-> rain, windGusts10mKmh |-> gust,
      precipitationMm |-> None, pressureMslHpa |-> None, visibilityM |-> None,
      waveHeightM |-> wave, waveDirectionDeg |-> None, wavePeriodS |-> None,
      waterTempC |-> None ]

\* DEFAULT_LOCATION and a second, searched location
DEFAULT_LOCATION == "Langebaan, ZA"
OtherLocation == "Cape Town, ZA"
Locations == {DEFAULT_LOCATION, OtherLocation}

\* The hourly series the provider answers with: 07:00 and 08:00 of the day,
\* or no hours at all.
HoursOf(loc) ==
    IF loc = DEFAULT_LOCATION
    THEN << Hour(420, 200, 45, 180, Some(10), None, Some(5)),
            Hour(480, 320, 180, 215, Some(55), Some(410), None) >>
    ELSE << Hour(420, 90, 270, 150, None, None, None),
            Hour(480, 150, 300, 160, Some(0), None, Some(12)) >>

\* fetchForecast's result: { locationName, timezone, hours, ... }
ForecastBundle(loc, hours) ==
    [ locationName |-> loc, hours |-> hours, sunrise |-> None, sunset |-> None ]

\* --------------------------------------------------- nearest-hour selector
Abs(x) == IF x < 0 THEN -x ELSE x

\* a scan that lets a later hour win a tie
RECURSIVE nowHourScanLastWins(_, _, _, _)
nowHourScanLastWins(hours, now, i, best) ==
    IF i > Len(hours) THEN best
    ELSE nowHourScanLastWins(hours, now, i + 1,
            IF Abs(hours[i].time - now) <= Abs(hours[best].time - now)
            THEN i ELSE best)

\* the for loop of nowHour: best starts at hours[0], a later hour replaces it
\* only when strictly closer
RECURSIVE nowHourScan(_, _, _, _)
nowHourScan(hours, now, i, best) ==
    IF i > Len(hours) THEN best
    ELSE nowHourScan(hours, now, i + 1,
            IF Abs(hours[i].time - now) < Abs(hours[best].time - now)
            THEN i ELSE best)

\* index (from 1) of the hour nowHour returns, 0 for null
nowHourIndex(hours, now) ==
    IF Len(hours) = 0 THEN 0 ELSE nowHourScan(hours, now, 1, 1)

\* the useMemo value: null without a bundle or with no hours
nowHourOf(b, now) ==
    IF ~Has(b) \/ Len(Val(b).hours) = 0 THEN None
    ELSE Some(Val(b).hours[nowHourIndex(Val(b).hours, now)])

\* the standalone sender's scan: bestIdx = 0, bestDelta = Infinity (here -1)
RECURSIVE bestIdxScan(_, _, _, _, _)
bestIdxScan(times, nowMs, i, bestIdx, bestDelta) ==
    IF i > Len(times) THEN bestIdx
    ELSE LET d == Abs(times[i] - nowMs)
         IN  IF bestDelta = -1 \/ d < bestDelta
             THEN bestIdxScan(times, nowMs, i + 1, i, d)
             ELSE bestIdxScan(times, nowMs, i + 1, bestIdx, bestDelta)

bestIdxOf(times, nowMs) == bestIdxScan(times, nowMs, 1, 1, -1)

\* -------------------------------------------------------- message composer
\* a rating whose Light band takes 16 km/h in
getWindSurferRatingUpTo16(windSpeedKmh) ==
    IF windSpeedKmh <= 160 THEN [rating |-> "Light", range |-> "5-16 km/h"]
    ELSE IF windSpeedKmh < 300 THEN [rating |-> "Moderate", range |-> "16-30 km/h"]
    ELSE [rating |-> "Strong+", range |-> "30+ km/h"]

getWindSurferRating(windSpeedKmh) ==
    IF windSpeedKmh < 160 THEN [rating |-> "Light", range |-> "5-16 km/h"]
    ELSE IF windSpeedKmh < 300 THEN [rating |-> "Moderate", range |-> "16-30 km/h"]
    ELSE [rating |-> "Strong+", range |-> "30+ km/h"]

getWaterSurfaceDescription(waveHeightM) ==
    IF ~Truthy(waveHeightM) \/ Val(waveHeightM) < 3 THEN "Smooth"
    ELSE IF Val(waveHeightM) < 8 THEN "Choppy"
    ELSE "Rough"

\* sectors closed at their upper ends
isSideOnshoreClosed(windDeg) ==
    LET normalized == JsRem(windDeg + 360, 360)
    IN  (normalized >= 315 \/ normalized <= 45)
            \/ (normalized >= 135 /\ normalized <= 225)

isSideOnshore(windDeg) ==
    LET normalized == JsRem(windDeg + 360, 360)
    IN  (normalized >= 315 \/ normalized < 45)
            \/ (normalized >= 135 /\ normalized < 225)

WindText(h, u) ==
    formatWindSpeed(h.windSpeed10mKmh, u) \o " " \o degToCompass(h.windDirection10mDeg)

\* a conditions line that reports rain from 30 % on
casualConditionsFrom30(h) ==
    IF Truthy(h.precipitationProbabilityPct)
            /\ Val(h.precipitationProbabilityPct) >= 30
    THEN "Rain " \o ToString(Val(h.precipitationProbabilityPct)) \o "%"
    ELSE "Clear"

\* const conditions = p && p > 30 ? `Rain ${Math.round(p)}%` : 'Clear'
casualConditions(h) ==
    IF Truthy(h.precipitationProbabilityPct)
            /\ Val(h.precipitationProbabilityPct) > 30
    THEN "Rain " \o ToString(Val(h.precipitationProbabilityPct)) \o "%"
    ELSE "Clear"

\* the interpolated texts of getCasualMessage
CasualFields(h, u, tu) ==
    [ wind |-> WindText(h, u),
      temp |-> formatTemperatureForDisplay(h.temperatureC, tu),
      conditions |-> casualConditions(h) ]

\* the template literal of getCasualMessage around the texts f
CasualText(b, h, f) ==
    "[sun] Daily Weather - " \o b.locationName
        \o "\n[clock] " \o fmtTime(h.time)
        \o "\n[wind] Wind: " \o f.wind
        \o "\n[temp] Temp: " \o f.temp
        \o "\n[sky] " \o f.conditions

getCasualMessage(b, h, u, tu) == CasualText(b, h, CasualFields(h, u, tu))

\* the rating and the shore-relative wind type of the surfer report
SurferFields(h) ==
    [ windRating |-> getWindSurferRating(h.windSpeed10mKmh),
      windType |-> IF isSideOnshore(h.windDirection10mDeg)
                   THEN "Side-onshore" ELSE "Cross-shore" ]

\* the template literal of 'surfer' mode around the rating and wind type f
SurferText(b, h, u, tu, f) ==
    LET windRating == f.windRating
        windType == f.windType
        period == IF Truthy(h.wavePeriodS)
                  THEN ToString(Val(h.wavePeriodS)) \o "s" ELSE ""
    IN  "[surf] Wind Surfer Report - " \o b.locationName
        \o "\n[clock] " \o fmtTime(h.time)
        \o " * [temp] " \o formatTemperatureForDisplay(h.temperatureC, tu)
        \o "\n[wind] Wind: " \o WindText(h, u) \o " (" \o windRating.rating \o ")"
        \o "\n[wave] Water: " \o getWaterSurfaceDescription(h.waveHeightM)
        \o " * " \o windType
        \o "\n[chart] Rating: " \o windRating.rating \o " (" \o windRating.range \o ")"
        \o "\n" \o (IF Truthy(h.waveHeightM)
                     THEN "[wave] Waves: " \o toFixed1(Val(h.waveHeightM)) \o "m " \o period
                     ELSE "")
        \o "\n" \o (IF Truthy(h.waterTempC)
                     THEN "[drop] Water: " \o toFixed1(Val(h.waterTempC)) \o "degC"
                     ELSE "")

SurferMessage(b, h, u, tu) == SurferText(b, h, u, tu, SurferFields(h))

\* the texts of the optional fields in 'everything' mode, each '' when its
\* value is falsy
EverythingFields(h, u, tu) ==
    [ gust |-> IF Truthy(h.windGusts10mKmh)
               THEN "Gust " \o formatWindSpeed(Val(h.windGusts10mKmh), u) ELSE "",
      rain |-> IF Truthy(h.precipitationProbabilityPct)
               THEN "Rain " \o ToString(Val(h.precipitationProbabilityPct)) \o "%" ELSE "",
      pressure |-> IF Truthy(h.pressureMslHpa)
                   THEN ToString(Val(h.pressureMslHpa)) \o "hPa" ELSE "",
      vis |-> IF Truthy(h.visibilityM)
              THEN "Vis " \o toFixed1(RoundDiv(Val(h.visibilityM), 100)) \o "km" ELSE "",
      waves |-> IF Truthy(h.waveHeightM)
                THEN "Waves " \o toFixed1(Val(h.waveHeightM)) \o "m" ELSE "",
      water |-> IF Truthy(h.waterTempC)
                THEN "Water " \o formatTemperatureForDisplay(Val(h.waterTempC), tu)
                ELSE "" ]

\* the template literal of 'everything' mode around the field texts f
EverythingText(b, h, u, tu, f) ==
    "[chart] Complete Weather Report - " \o b.locationName
        \o "\n[clock] " \o fmtTime(h.time)
        \o "\n[wind] Wind: " \o WindText(h, u) \o " " \o f.gust
        \o "\n[temp] Temp: " \o formatTemperatureForDisplay(h.temperatureC, tu)
        \o " * Humidity: " \o ToString(h.humidityPct) \o "%"
        \o " * Clouds: " \o ToString(h.cloudCoverPct) \o "%"
        \o "\n" \o (IF f.rain # "" THEN "[rain] " \o f.rain ELSE "")
        \o " " \o (IF f.pressure # "" THEN "[ruler] " \o f.pressure ELSE "")
        \o " " \o (IF f.vis # "" THEN "[eye] " \o f.vis ELSE "")
        \o "\n" \o (IF f.waves # "" THEN "[wave] " \o f.waves ELSE "")
        \o " " \o (IF f.water # "" THEN "[drop] " \o f.water ELSE "")

EverythingMessage(b, h, u, tu) == EverythingText(b, h, u, tu, EverythingFields(h, u, tu))

\* a composer whose custom mode reports every field
getViewModeSpecificMessageCustomAll(b, h, u, tu, vm) ==
    IF vm = "surfer" THEN SurferMessage(b, h, u, tu)
    ELSE IF vm \in {"everything", "custom"} THEN EverythingMessage(b, h, u, tu)
    ELSE getCasualMessage(b, h, u, tu)

getViewModeSpecificMessage(b, h, u, tu, vm) ==
    IF vm = "surfer" THEN SurferMessage(b, h, u, tu)
    ELSE IF vm = "everything" THEN EverythingMessage(b, h, u, tu)
    ELSE IF vm = "custom" THEN getCasualMessage(b, h, u, tu)
    ELSE getCasualMessage(b, h, u, tu)

\* condensedMessage: the one-line summary; empty without a bundle or a sample
condensedMessage(b, nh, u) ==
    IF ~Has(b) \/ ~Has(nh) THEN ""
    ELSE LET h == Val(nh)
             bd == Val(b)
             wind == formatWindSpeed(h.windSpeed10mKmh, u) \o " "
                        \o degToCompass(h.windDirection10mDeg)
             gust == IF Has(h.windGusts10mKmh)
                     THEN " | Gust " \o formatWindSpeed(Val(h.windGusts10mKmh), u) ELSE ""
             temp == ToString(RoundDiv(h.temperatureC, 10)) \o "degC"
             hum == ToString(h.humidityPct) \o "%"
             clouds == ToString(h.cloudCoverPct) \o "%"
             rainProb == IF Has(h.precipitationProbabilityPct)
                         THEN " | Rain " \o ToString(Val(h.precipitationProbabilityPct)) \o "%"
                         ELSE ""
             rainMm == IF Has(h.precipitationMm)
                       THEN " " \o toFixed1(Val(h.precipitationMm)) \o "mm" ELSE ""
             pressure == IF Has(h.pressureMslHpa)
                         THEN " | " \o ToString(Val(h.pressureMslHpa)) \o "hPa" ELSE ""
             vis == IF Has(h.visibilityM)
                    THEN " | Vis " \o toFixed1(RoundDiv(Val(h.visibilityM), 100)) \o "km"
                    ELSE ""
             waves == IF Has(h.waveHeightM)
                      THEN " | Waves " \o toFixed1(Val(h.waveHeightM)) \o "m" ELSE ""
             waveDir == IF Has(h.waveDirectionDeg)
                        THEN " " \o degToCompass(Val(h.waveDirectionDeg)) ELSE ""
             wavePeriod == IF Has(h.wavePeriodS)
                           THEN " " \o ToString(Val(h.wavePeriodS)) \o "s" ELSE ""
             water == IF Has(h.waterTempC)
                      THEN " | Water " \o toFixed1(Val(h.waterTempC)) \o "degC" ELSE ""
             rise == IF Has(bd.sunrise) THEN fmtTime(Val(bd.sunrise)) ELSE ""
             set == IF Has(bd.sunset) THEN fmtTime(Val(bd.sunset)) ELSE ""
             sun == IF rise # "" /\ set # "" THEN " | Sun " \o rise \o "-" \o set ELSE ""
         IN  "BurgerWinds * " \o bd.locationName \o " * " \o fmtTime(h.time)
                \o " * Wind " \o wind \o gust \o " * Temp " \o temp \o " * Hum " \o hum
                \o " * Clouds " \o clouds \o rainProb \o rainMm \o pressure \o vis
                \o waves \o waveDir \o wavePeriod \o water \o sun


\* ------------------------------------------------------------ App's state
VARIABLES
    mounted,          \* the App component is mounted
    clock,            \* wall clock, minutes since midnight
    elapsed,          \* minutes the behaviour has covered
    unit,             \* useState('bw_unit')
    temperatureUnit,  \* useState('bw_temperature_unit')
    viewMode,         \* useState('bw_view_mode')
    ntfy,             \* useState('bw_ntfy'): { enabled, topic, schedule }
    discordConfig,    \* useState('bw_discord_config'): { enabled, webhookUrl }
    location,         \* useState('bw_location')
    bundle,           \* ForecastBundle | null
    nowHour,          \* useMemo(..., [bundle])
    loading,
    err,
    inflight,         \* fetchForecast calls not yet settled, per location
    lastResolved,     \* the fetchForecast call that settled last
    ntfyPoll,         \* the ntfy effect's interval and its closure
    discordPoll,      \* the Discord effect's interval and its closure
    posted,           \* the POST requests the last step issued, in order
    dispatched,       \* sinks that got a scheduled POST in the current minute
    steady,           \* sinks enabled, with a destination and a matching
                      \* schedule entry ever since the current minute began
    loadedAll,        \* a bundle with hours was loaded ever since it began
    intervals,        \* per sink, the number of setInterval handles not cleared
    prefs,            \* theme and showArcReactor
    store,            \* localStorage: per key the stored entry
    report,           \* what became of the last POST that settled
    search,           \* useState('') of the location search
    searchResults,
    searchTimer,      \* searchTimer.current
    pendingTimers,    \* window.setTimeout timers not yet fired or cleared
    geoInflight,      \* geocode calls not yet settled
    requested,        \* the geocode request the last step issued
    idle,             \* 100 ms ticks since the search text last changed
    sel               \* the selector check's input and result

timeVars == << clock, elapsed >>
settingsVars == << unit, temperatureUnit, viewMode, ntfy, discordConfig, prefs >>
refreshVars == << location, bundle, nowHour, loading, err, inflight, lastResolved >>
pollVars == << ntfyPoll, discordPoll, posted, dispatched, steady, loadedAll,
              intervals, store, report >>
searchVars == << search, searchResults, searchTimer, pendingTimers, geoInflight,
                 requested, idle >>
vars == << mounted, timeVars, settingsVars, refreshVars, pollVars, searchVars, sel >>

Sinks == {"ntfy", "discord"}

\* ------------------------------------------------------- JSON and storage
\* A JSON value is tagged with its type.  The text of a string is a sequence
\* of pieces: a quote, a backslash, or a run of characters holding neither.
\* A JSON text is a sequence of pieces as well: the punctuation, the
\* literals, a number's digits, and the pieces of strings.
QUOTE == "\""
BACKSLASH == "\\"
JNull == [ t |-> "null" ]
JBool(b) == [ t |-> "bool", b |-> b ]
JNum(n) == [ t |-> "num", n |-> n ]
JStr(pieces) == [ t |-> "str", s |-> pieces ]
JArr(xs) == [ t |-> "arr", xs |-> xs ]
JObj(kvs) == [ t |-> "obj", kvs |-> kvs ]

\* the numbers a text can hold
JsonNumbers == 0..MaxNum

\* JSON.stringify of a string: quotes around the text, quote and backslash
\* escaped by a backslash
RECURSIVE escapePieces(_)
escapePieces(pieces) ==
    IF Len(pieces) = 0 THEN << >>
    ELSE (IF Head(pieces) \in {QUOTE, BACKSLASH}
          THEN << BACKSLASH, Head(pieces) >> ELSE << Head(pieces) >>)
            \o escapePieces(Tail(pieces))

quoted(pieces) == << QUOTE >> \o escapePieces(pieces) \o << QUOTE >>

\* JSON.stringify
RECURSIVE stringify(_)
RECURSIVE stringifyItems(_)
RECURSIVE stringifyMembers(_)
stringify(v) ==
    CASE v.t = "null" -> << "null" >>
      [] v.t = "bool" -> IF v.b THEN << "true" >> ELSE << "false" >>
      [] v.t = "num" -> << ToString(v.n) >>
      [] v.t = "str" -> quoted(v.s)
      [] v.t = "arr" -> << "[" >> \o stringifyItems(v.xs) \o << "]" >>
      [] v.t = "obj" -> << "{" >> \o stringifyMembers(v.kvs) \o << "}" >>

stringifyItems(xs) ==
    IF Len(xs) = 0 THEN << >>
    ELSE stringify(Head(xs))
            \o (IF Len(xs) > 1 THEN << "," >> ELSE << >>)
            \o stringifyItems(Tail(xs))

stringifyMembers(kvs) ==
    IF Len(kvs) = 0 THEN << >>
    ELSE quoted(Head(kvs)[1]) \o << ":" >> \o stringify(Head(kvs)[2])
            \o (IF Len(kvs) > 1 THEN << "," >> ELSE << >>)
            \o stringifyMembers(Tail(kvs))

\* JSON.parse, by recursive descent from piece i of the text: the value read
\* and the index after it, or no value (a SyntaxError)
ParseFail == [ ok |-> FALSE ]
Parsed(v, next) == [ ok |-> TRUE, v |-> v, next |-> next ]

NumTokens == { ToString(n) : n \in JsonNumbers }
NumOf(tok) == CHOOSE n \in JsonNumbers : ToString(n) = tok

\* the text of a string, from the piece after its opening quote
RECURSIVE parseString(_, _, _)
parseString(txt, i, acc) ==
    IF i > Len(txt) THEN ParseFail
    ELSE IF txt[i] = QUOTE THEN Parsed(acc, i + 1)
    ELSE IF txt[i] = BACKSLASH
         THEN IF i + 1 <= Len(txt) /\ txt[i + 1] \in {QUOTE, BACKSLASH}
              THEN parseString(txt, i + 2, Append(acc, txt[i + 1]))
              ELSE ParseFail
    ELSE parseString(txt, i + 1, Append(acc, txt[i]))

RECURSIVE parseValue(_, _)
RECURSIVE parseItems(_, _, _)
RECURSIVE parseMembers(_, _, _)
parseValue(txt, i) ==
    IF i > Len(txt) THEN ParseFail
    ELSE CASE txt[i] = "null" -> Parsed(JNull, i + 1)
           [] txt[i] = "true" -> Parsed(JBool(TRUE), i + 1)
           [] txt[i] = "false" -> Parsed(JBool(FALSE), i + 1)
           [] txt[i] \in NumTokens -> Parsed(JNum(NumOf(txt[i])), i + 1)
           [] txt[i] = QUOTE ->
                LET r == parseString(txt, i + 1, << >>)
                IN  IF r.ok THEN Parsed(JStr(r.v), r.next) ELSE ParseFail
           [] txt[i] = "[" -> parseItems(txt, i + 1, << >>)
           [] txt[i] = "{" -> parseMembers(txt, i + 1, << >>)
           [] OTHER -> ParseFail

\* the elements of an array, from the piece after "[" or after a ","
parseItems(txt, i, acc) ==
    IF i > Len(txt) THEN ParseFail
    ELSE IF Len(acc) = 0 /\ txt[i] = "]" THEN Parsed(JArr(<< >>), i + 1)
    ELSE LET r == parseValue(txt, i)
         IN  IF ~r.ok \/ r.next > Len(txt) THEN ParseFail
             ELSE IF txt[r.next] = "," THEN parseItems(txt, r.next + 1, Append(acc, r.v))
             ELSE IF txt[r.next] = "]" THEN Parsed(JArr(Append(acc, r.v)), r.next + 1)
             ELSE ParseFail

\* the members of an object, from the piece after "{" or after a ","
parseMembers(txt, i, acc) ==
    IF i > Len(txt) THEN ParseFail
    ELSE IF Len(acc) = 0 /\ txt[i] = "}" THEN Parsed(JObj(<< >>), i + 1)
    ELSE IF txt[i] # QUOTE THEN ParseFail
    ELSE LET k == parseString(txt, i + 1, << >>)
         IN  IF ~k.ok \/ k.next > Len(txt) \/ txt[k.next] # ":" THEN ParseFail
             ELSE LET r == parseValue(txt, k.next + 1)
                  IN  IF ~r.ok \/ r.next > Len(txt) THEN ParseFail
                      ELSE IF txt[r.next] = ","
                           THEN parseMembers(txt, r.next + 1, Append(acc, << k.v, r.v >>))
                      ELSE IF txt[r.next] = "}"
                           THEN Parsed(JObj(Append(acc, << k.v, r.v >>)), r.next + 1)
                      ELSE ParseFail

\* JSON.parse(text): None stands for the SyntaxError thrown
JSONparse(txt) ==
    LET r == parseValue(txt, 1)
    IN  IF r.ok /\ r.next = Len(txt) + 1 THEN Some(r.v) ELSE None

\* A storage entry: raw is the stored text (None for a missing key); given
\* remembers the value the text was made from when writeJson stored it
NoEntry == [ raw |-> None, given |-> None ]

\* localStorage.getItem(key): null for a missing key
getItem(st, key) == st[key].raw

\* a readJson with no try/catch around JSON.parse
readJsonNoCatch(st, key, fallback) ==
    LET raw == getItem(st, key)
    IN  IF ~Has(raw) \/ Len(Val(raw)) = 0 THEN fallback
        ELSE IF Has(JSONparse(Val(raw))) THEN Val(JSONparse(Val(raw)))
        ELSE [ t |-> "SyntaxError" ]

\* readJson(key, fallback)
readJson(st, key, fallback) ==
    LET raw == getItem(st, key)
    IN  IF ~Has(raw) \/ Len(Val(raw)) = 0 THEN fallback
        ELSE IF Has(JSONparse(Val(raw))) THEN Val(JSONparse(Val(raw)))
        ELSE fallback

\* writeJson(key, value): localStorage.setItem(key, JSON.stringify(value))
writeJson(st, key, value) ==
    [ st EXCEPT ![key] = [ raw |-> Some(stringify(value)), given |-> Some(value) ] ]

\* ----------------------------------------------------- scheduled dispatch
\* Array.prototype.includes
includes(seq, x) == \E i \in 1..Len(seq) : seq[i] = x

\* `${now.getHours().toString().padStart(2, '0')}:${now.getMinutes()...}`
currentTime(now) == Pad2(getHours(now)) \o ":" \o Pad2(getMinutes(now))

Post(sink, dest, body, scheduled) ==
    [ sink |-> sink, dest |-> dest, body |-> body, scheduled |-> scheduled ]

\* sendToNtfy: POST https://ntfy.sh/${topic}
sendToNtfy(message, topic, scheduled) == << Post("ntfy", topic, message, scheduled) >>

\* DiscordNotificationService.sendWeatherAlert: the embed's description is
\* the message.  scheduled: called by sendDiscordNotification (else by a
\* caller that awaits the service itself).
sendWeatherAlert(config, message, scheduled) ==
    IF ~config.enabled \/ config.webhookUrl = "" THEN << >>
    ELSE << Post("discord", config.webhookUrl, message, scheduled) >>

\* sendDiscordNotification: a service built from discordConfig
sendDiscordNotification(config, message) == sendWeatherAlert(config, message, TRUE)

\* How a POST ends: a 2xx response, another response, or fetch rejecting
Outcomes == {"ok", "status", "network"}

\* sendToNtfy after the await: the response is not looked at; only a rejected
\* fetch reaches the catch, which logs and rethrows
ntfyRejects(outcome) == outcome = "network"

\* a sendWeatherAlert that does not look at response.ok
alertRejectsNetworkOnly(outcome) == outcome = "network"

\* sendWeatherAlert after the await: !response.ok throws inside the try; the
\* catch logs and rethrows
alertRejects(outcome) == outcome # "ok"

NoReport ==
    [ sink |-> "none", scheduled |-> FALSE, outcome |-> "ok", logged |-> 0,
      rejected |-> FALSE, caught |-> FALSE, unhandled |-> FALSE ]

\* The rest of the dispatcher and of its caller once the POST p has ended.
\*   logged:    console.error calls
\*   rejected:  the dispatcher's promise rejects (the error is raised to the
\*              dispatcher's caller)
\*   caught:    sendDiscordNotification's catch took it (and logged it again)
\*   unhandled: the promise was discarded with `void` and nothing handles
\*              its rejection
Settlement(p, outcome) ==
    LET rejected == IF p.sink = "ntfy" THEN ntfyRejects(outcome) ELSE alertRejects(outcome)
        caught == rejected /\ p.sink = "discord" /\ p.scheduled
        voided == p.sink = "ntfy"
    IN  [ sink |-> p.sink, scheduled |-> p.scheduled, outcome |-> outcome,
          logged |-> (IF rejected THEN 1 ELSE 0) + (IF caught THEN 1 ELSE 0),
          rejected |-> rejected, caught |-> caught,
          unhandled |-> rejected /\ voided ]

\* The ntfy effect: None when its guard returns early, else the closure the
\* interval's callback runs with.  temperatureUnit is read by the callback
\* and is not among the effect's dependencies.
NtfyDeps == << ntfy.enabled, ntfy.topic, ntfy.schedule, bundle, nowHour, unit, viewMode >>

ntfyEffect(n, b, nh, u, tu, vm) ==
    IF ~n.enabled \/ n.topic = "" \/ Len(n.schedule) = 0 \/ ~Has(b) \/ ~Has(nh)
    THEN None
    ELSE Some([ schedule |-> n.schedule, topic |-> n.topic, bundle |-> Val(b),
                nowHour |-> Val(nh), unit |-> u, temperatureUnit |-> tu,
                viewMode |-> vm ])

checkSchedule(c, now) ==
    IF includes(c.schedule, currentTime(now))
    THEN sendToNtfy(getViewModeSpecificMessage(c.bundle, c.nowHour, c.unit,
                        c.temperatureUnit, c.viewMode), c.topic, TRUE)
    ELSE << >>

\* The Discord effect
DiscordDeps ==
    << discordConfig.enabled, discordConfig.webhookUrl, ntfy.schedule, bundle,
       nowHour, unit, temperatureUnit, viewMode >>

\* A Discord effect whose guard also reads the ntfy switch
discordEffectCoupled(d, n, b, nh, u, tu, vm) ==
    IF ~n.enabled \/ ~d.enabled \/ d.webhookUrl = "" \/ ~Has(b) \/ ~Has(nh)
    THEN None
    ELSE Some([ schedule |-> n.schedule, config |-> d, bundle |-> Val(b),
                nowHour |-> Val(nh), unit |-> u, temperatureUnit |-> tu,
                viewMode |-> vm ])

discordEffect(d, n, b, nh, u, tu, vm) ==
    IF ~d.enabled \/ d.webhookUrl = "" \/ ~Has(b) \/ ~Has(nh)
    THEN None
    ELSE Some([ schedule |-> n.schedule, config |-> d, bundle |-> Val(b),
                nowHour |-> Val(nh), unit |-> u, temperatureUnit |-> tu,
                viewMode |-> vm ])

checkDiscordSchedule(c, now) ==
    IF includes(c.schedule, currentTime(now))
    THEN sendDiscordNotification(c.config,
            getViewModeSpecificMessage(c.bundle, c.nowHour, c.unit,
                c.temperatureUnit, c.viewMode))
    ELSE << >>

NoPoll == [ timer |-> None, checked |-> FALSE ]

Dispatched(old, posts) ==
    [ s \in Sinks |->
        old[s] \/ \E i \in 1..Len(posts) : posts[i].sink = s /\ posts[i].scheduled ]

\* The clock's minute as "HH:MM", digit by digit
Digits == << "0", "1", "2", "3", "4", "5", "6", "7", "8", "9" >>
TwoDigits(n) == Digits[(n \div 10) + 1] \o Digits[(n % 10) + 1]
HHMM(t) == TwoDigits((t % MinutesPerDay) \div 60) \o ":" \o TwoDigits(t % 60)

\* Sink s is enabled, has a destination, and the schedule holds the current
\* minute, while the component is mounted
SinkDue(s) ==
    /\ mounted
    /\ includes(ntfy.schedule, HHMM(clock))
    /\ IF s = "ntfy" THEN ntfy.enabled /\ ntfy.topic # ""
       ELSE discordConfig.enabled /\ discordConfig.webhookUrl # ""

\* A bundle with at least one hour is loaded
Loaded == Has(bundle) /\ Len(Val(bundle).hours) > 0

\* The settings as the JSON values writeJson is given, by storage key
JsonString(str) == JStr(IF str = "" THEN << >> ELSE << str >>)

RECURSIVE JsonStrings(_)
JsonStrings(strs) ==
    IF Len(strs) = 0 THEN << >> ELSE << JsonString(Head(strs)) >> \o JsonStrings(Tail(strs))

JsonNtfy(n) ==
    JObj(<< << << "enabled" >>, JBool(n.enabled) >>,
            << << "topic" >>, JsonString(n.topic) >>,
            << << "schedule" >>, JArr(JsonStrings(n.schedule)) >> >>)

JsonDiscord(d) ==
    JObj(<< << << "enabled" >>, JBool(d.enabled) >>,
            << << "webhookUrl" >>, JsonString(d.webhookUrl) >> >>)

JsonLocation(l) == JObj(<< << << "name" >>, JsonString(l) >> >>)

\* the keys of the settings with a writeJson effect
EffectKeys ==
    { "bw_theme", "bw_view_mode", "bw_ntfy", "bw_location", "bw_temperature_unit",
      "bw_discord_config", "bw_arc_reactor" }

\* the value the effect of key k gives writeJson
Persisted(k) ==
    CASE k = "bw_theme" -> JsonString(prefs.theme)
      [] k = "bw_view_mode" -> JsonString(viewMode)
      [] k = "bw_ntfy" -> JsonNtfy(ntfy)
      [] k = "bw_location" -> JsonLocation(location)
      [] k = "bw_temperature_unit" -> JsonString(temperatureUnit)
      [] k = "bw_discord_config" -> JsonDiscord(discordConfig)
      [] k = "bw_arc_reactor" -> JBool(prefs.showArcReactor)

\* the effect's dependency: [theme], [viewMode], ...
EffectDep(k) ==
    CASE k = "bw_theme" -> << prefs.theme >>
      [] k = "bw_view_mode" -> << viewMode >>
      [] k = "bw_ntfy" -> << ntfy >>
      [] k = "bw_location" -> << location >>
      [] k = "bw_temperature_unit" -> << temperatureUnit >>
      [] k = "bw_discord_config" -> << discordConfig >>
      [] k = "bw_arc_reactor" -> << prefs.showArcReactor >>

\* the keys readJson is called with at mount
StoreKeys == EffectKeys \cup {"bw_unit"}

\* the writeJson effects of a commit: an effect runs when its dependency
\* changed
writeChanged ==
    [ k \in StoreKeys |->
        IF k \in EffectKeys /\ EffectDep(k)' # EffectDep(k)
        THEN writeJson(store, k, Persisted(k)')[k]
        ELSE store[k] ]

\* the writeJson effects of the mount: every effect runs once
writeAll(st) ==
    [ k \in StoreKeys |->
        IF k \in EffectKeys THEN writeJson(st, k, Persisted(k))[k] ELSE st[k] ]

\* an effect that returns no cleanup function
clearIntervalNone(live, timer) == live

\* return () => clearInterval(interval): the cleanup of an effect run that
\* armed an interval clears it; a run that returned early has no cleanup
clearInterval(live, timer) == IF Has(timer) THEN live - 1 ELSE live

\* A commit whose effects arm the interval and leave the first check to the
\* interval's first tick
CommitNoImmediate(fresh, manual) ==
    LET nRerun == mounted' /\ (fresh \/ NtfyDeps' # NtfyDeps)
        dRerun == mounted' /\ (fresh \/ DiscordDeps' # DiscordDeps)
        nTimer == ntfyEffect(ntfy', bundle', nowHour', unit', temperatureUnit', viewMode')
        dTimer == discordEffect(discordConfig', ntfy', bundle', nowHour', unit',
                                temperatureUnit', viewMode')
    IN  /\ ntfyPoll' = IF nRerun THEN [ timer |-> nTimer, checked |-> Has(nTimer) ]
                       ELSE ntfyPoll
        /\ discordPoll' = IF dRerun THEN [ timer |-> dTimer, checked |-> Has(dTimer) ]
                          ELSE discordPoll
        /\ posted' = manual
        /\ dispatched' = dispatched
        /\ steady' = [ s \in Sinks |-> steady[s] /\ SinkDue(s)' ]
        /\ loadedAll' = (loadedAll /\ Loaded')
        /\ intervals' =
              [ s \in Sinks |->
                  LET rerun == IF s = "ntfy" THEN nRerun ELSE dRerun
                      old == IF s = "ntfy" THEN ntfyPoll.timer ELSE discordPoll.timer
                      new == IF s = "ntfy" THEN nTimer ELSE dTimer
                  IN  IF rerun
                      THEN clearInterval(intervals[s], old)
                              + (IF Has(new) THEN 1 ELSE 0)
                      ELSE intervals[s] ]
        /\ store' = IF mounted' THEN writeChanged ELSE store
        /\ report' = report

\* The commit that follows a state change: every scheduling effect one of
\* whose dependencies changed is cleaned up (clearInterval) and run again
\* (setInterval, then one immediate check).  fresh: setBundle was given a new
\* object.  manual: the POSTs the handler itself issued.
Commit(fresh, manual) ==
    LET nRerun == mounted' /\ (fresh \/ NtfyDeps' # NtfyDeps)
        dRerun == mounted' /\ (fresh \/ DiscordDeps' # DiscordDeps)
        nTimer == ntfyEffect(ntfy', bundle', nowHour', unit', temperatureUnit', viewMode')
        dTimer == discordEffect(discordConfig', ntfy', bundle', nowHour', unit',
                                temperatureUnit', viewMode')
        nPosts == IF nRerun /\ Has(nTimer) THEN checkSchedule(Val(nTimer), clock') ELSE << >>
        dPosts == IF dRerun /\ Has(dTimer) THEN checkDiscordSchedule(Val(dTimer), clock') ELSE << >>
    IN  /\ ntfyPoll' = IF nRerun THEN [ timer |-> nTimer, checked |-> Has(nTimer) ]
                       ELSE ntfyPoll
        /\ discordPoll' = IF dRerun THEN [ timer |-> dTimer, checked |-> Has(dTimer) ]
                          ELSE discordPoll
        /\ posted' = manual \o nPosts \o dPosts
        /\ dispatched' = Dispatched(dispatched, nPosts \o dPosts)
        /\ steady' = [ s \in Sinks |-> steady[s] /\ SinkDue(s)' ]
        /\ loadedAll' = (loadedAll /\ Loaded')
        /\ intervals' =
              [ s \in Sinks |->
                  LET rerun == IF s = "ntfy" THEN nRerun ELSE dRerun
                      old == IF s = "ntfy" THEN ntfyPoll.timer ELSE discordPoll.timer
                      new == IF s = "ntfy" THEN nTimer ELSE dTimer
                  IN  IF rerun
                      THEN clearInterval(intervals[s], old)
                              + (IF Has(new) THEN 1 ELSE 0)
                      ELSE intervals[s] ]
        /\ store' = IF mounted' THEN writeChanged ELSE store
        /\ report' = report

\* ------------------------------------------------------------------ inputs
UnitInputs == {"kmh", "kts"}
TemperatureInputs == {"celsius", "fahrenheit"}
ViewModeInputs == {"casual", "everything"}
TopicInputs == {"", "bw-alerts"}
TimeInputs == {"07:00", "07:01"}
WebhookInputs == {"", "https://discord.test/hook"}
DiscordConfigs == [ enabled : BOOLEAN, webhookUrl : WebhookInputs ]
\* `bw-${Math.random().toString(36).substr(2, 9)}`
RandomTopic == "bw-k3x9q2m1z"

InflightCount == inflight[DEFAULT_LOCATION] + inflight[OtherLocation]

\* ------------------------------------------------------- settings handlers
\* setUnit
SetUnit(u) ==
    /\ mounted /\ u # unit
    /\ unit' = u
    /\ UNCHANGED << mounted, prefs, timeVars, temperatureUnit, viewMode, ntfy, discordConfig,
                    refreshVars, searchVars, sel >>
    /\ Commit(FALSE, << >>)

\* setTemperatureUnit
SetTemperatureUnit(tu) ==
    /\ mounted /\ tu # temperatureUnit
    /\ temperatureUnit' = tu
    /\ UNCHANGED << mounted, prefs, timeVars, unit, viewMode, ntfy, discordConfig,
                    refreshVars, searchVars, sel >>
    /\ Commit(FALSE, << >>)

\* setViewMode
SetViewMode(vm) ==
    /\ mounted /\ vm # viewMode
    /\ viewMode' = vm
    /\ UNCHANGED << mounted, prefs, timeVars, unit, temperatureUnit, ntfy, discordConfig,
                    refreshVars, searchVars, sel >>
    /\ Commit(FALSE, << >>)

\* setTheme
SetTheme(th) ==
    /\ mounted /\ th # prefs.theme
    /\ prefs' = [prefs EXCEPT !.theme = th]
    /\ UNCHANGED << mounted, timeVars, unit, temperatureUnit, viewMode, ntfy,
                    discordConfig, refreshVars, searchVars, sel >>
    /\ Commit(FALSE, << >>)

\* FloatingButtons: setShowArcReactor
SetShowArcReactor(b) ==
    /\ mounted /\ b # prefs.showArcReactor
    /\ prefs' = [prefs EXCEPT !.showArcReactor = b]
    /\ UNCHANGED << mounted, timeVars, unit, temperatureUnit, viewMode, ntfy,
                    discordConfig, refreshVars, searchVars, sel >>
    /\ Commit(FALSE, << >>)

\* onNtfyChange(n): setNtfy
SetNtfy(n) ==
    /\ mounted /\ n # ntfy
    /\ ntfy' = n
    /\ UNCHANGED << mounted, prefs, timeVars, unit, temperatureUnit, viewMode, discordConfig,
                    refreshVars, searchVars, sel >>
    /\ Commit(FALSE, << >>)

\* NtfyPanel: the topic input
NtfyTopicChange(t) == SetNtfy([ntfy EXCEPT !.topic = t])

\* NtfyPanel: the "Enable notifications" checkbox
NtfyEnabledChange == SetNtfy([ntfy EXCEPT !.enabled = ~ntfy.enabled])

\* NtfyPanel: the schedule section is rendered only while ntfy.enabled
NtfyScheduleAdd ==
    /\ ntfy.enabled /\ Len(ntfy.schedule) < MaxSchedule
    /\ SetNtfy([ntfy EXCEPT !.schedule = Append(ntfy.schedule, "07:00")])

NtfyScheduleEdit(i, t) ==
    /\ ntfy.enabled /\ i \in 1..Len(ntfy.schedule)
    /\ SetNtfy([ntfy EXCEPT !.schedule = [ntfy.schedule EXCEPT ![i] = t]])

NtfyScheduleRemove(i) ==
    /\ ntfy.enabled /\ i \in 1..Len(ntfy.schedule)
    /\ SetNtfy([ntfy EXCEPT !.schedule =
                    SubSeq(ntfy.schedule, 1, i - 1)
                        \o SubSeq(ntfy.schedule, i + 1, Len(ntfy.schedule))])

\* A "Send now" that posts the condensed message without looking at the bundle
OnSendUnguarded ==
    /\ mounted
    /\ ntfy' = IF ntfy.topic = ""
               THEN [ enabled |-> TRUE, topic |-> RandomTopic, schedule |-> << >> ]
               ELSE ntfy
    /\ UNCHANGED << mounted, prefs, timeVars, unit, temperatureUnit, viewMode, discordConfig,
                    refreshVars, searchVars, sel >>
    /\ Commit(FALSE,
              IF ntfy.topic # ""
              THEN sendToNtfy(condensedMessage(bundle, nowHour, unit), ntfy.topic, FALSE)
              ELSE << >>)

\* NtfyPanel onSend: "Auto-generate topic" / "Send now"
OnSend ==
    /\ mounted
    /\ ntfy' = IF ntfy.topic = ""
               THEN [ enabled |-> TRUE, topic |-> RandomTopic, schedule |-> << >> ]
               ELSE ntfy
    /\ UNCHANGED << mounted, prefs, timeVars, unit, temperatureUnit, viewMode, discordConfig,
                    refreshVars, searchVars, sel >>
    /\ Commit(FALSE,
              IF ntfy.topic # "" /\ Has(bundle) /\ Has(nowHour)
              THEN sendToNtfy(getViewModeSpecificMessage(Val(bundle), Val(nowHour),
                        unit, temperatureUnit, viewMode), ntfy.topic, FALSE)
              ELSE << >>)

\* DiscordSettings onSave(config): setDiscordConfig
DiscordSave(config) ==
    /\ mounted /\ config # discordConfig
    /\ discordConfig' = config
    /\ UNCHANGED << mounted, prefs, timeVars, unit, temperatureUnit, viewMode, ntfy,
                    refreshVars, searchVars, sel >>
    /\ Commit(FALSE, << >>)

\* ---------------------------------------------------------------- refresh
\* refresh(), up to its await: setLoading(true), setErr(null), fetchForecast
StartRefresh(loc) ==
    /\ loading' = TRUE
    /\ err' = None
    /\ inflight' = [inflight EXCEPT ![loc] = @ + 1]

\* the header's select: setLocation(savedLoc); the [refresh] effect follows
SetLocation(loc) ==
    /\ mounted /\ loc # location /\ InflightCount < MaxInflight
    /\ location' = loc
    /\ StartRefresh(loc)
    /\ UNCHANGED << mounted, timeVars, settingsVars, bundle, nowHour, lastResolved,
                    searchVars, sel >>
    /\ Commit(FALSE, << >>)

\* the refresh button: onClick={() => void refresh()}
ManualRefresh ==
    /\ mounted /\ InflightCount < MaxInflight
    /\ StartRefresh(location)
    /\ UNCHANGED << mounted, timeVars, settingsVars, location, bundle, nowHour,
                    lastResolved, searchVars, sel >>
    /\ Commit(FALSE, << >>)

\* the catch branch of refresh
RefreshCatch ==
    /\ err' = Some("Forecast failed (500)")
    /\ bundle' = None
    /\ nowHour' = None

\* a refresh that drops the response of a fetch for another location than the
\* current one
FetchSucceedCurrentOnly(loc, hours) ==
    /\ inflight[loc] > 0
    /\ inflight' = [inflight EXCEPT ![loc] = @ - 1]
    /\ lastResolved' = Some([ loc |-> loc, ok |-> TRUE ])
    /\ IF mounted /\ loc = location
       THEN /\ bundle' = Some(ForecastBundle(loc, hours))
            /\ nowHour' = nowHourOf(bundle', clock)
            /\ loading' = FALSE
            /\ UNCHANGED err
       ELSE UNCHANGED << bundle, nowHour, loading, err >>
    /\ UNCHANGED << mounted, timeVars, settingsVars, location, searchVars, sel >>
    /\ Commit(mounted /\ loc = location, << >>)

\* fetchForecast resolves: setBundle(b), finally setLoading(false)
FetchSucceed(loc, hours) ==
    /\ inflight[loc] > 0
    /\ inflight' = [inflight EXCEPT ![loc] = @ - 1]
    /\ lastResolved' = Some([ loc |-> loc, ok |-> TRUE ])
    /\ IF mounted
       THEN /\ bundle' = Some(ForecastBundle(loc, hours))
            /\ nowHour' = nowHourOf(bundle', clock)
            /\ loading' = FALSE
            /\ UNCHANGED err
       ELSE UNCHANGED << bundle, nowHour, loading, err >>
    /\ UNCHANGED << mounted, timeVars, settingsVars, location, searchVars, sel >>
    /\ Commit(TRUE, << >>)

\* fetchForecast rejects: the catch branch, finally setLoading(false)
FetchFail(loc) ==
    /\ inflight[loc] > 0
    /\ inflight' = [inflight EXCEPT ![loc] = @ - 1]
    /\ lastResolved' = Some([ loc |-> loc, ok |-> FALSE ])
    /\ IF mounted
       THEN RefreshCatch /\ loading' = FALSE
       ELSE UNCHANGED << bundle, nowHour, loading, err >>
    /\ UNCHANGED << mounted, timeVars, settingsVars, location, searchVars, sel >>
    /\ Commit(FALSE, << >>)

\* ------------------------------------------------------------- the clock
\* setInterval(checkSchedule, 60000): the callback
NtfyTick ==
    /\ Has(ntfyPoll.timer) /\ ~ntfyPoll.checked
    /\ ntfyPoll' = [ntfyPoll EXCEPT !.checked = TRUE]
    /\ posted' = checkSchedule(Val(ntfyPoll.timer), clock)
    /\ dispatched' = Dispatched(dispatched, posted')
    /\ UNCHANGED << mounted, timeVars, settingsVars, refreshVars, discordPoll,
                    steady, loadedAll, intervals, store, report, searchVars, sel >>

\* setInterval(checkDiscordSchedule, 60000): the callback
DiscordTick ==
    /\ Has(discordPoll.timer) /\ ~discordPoll.checked
    /\ discordPoll' = [discordPoll EXCEPT !.checked = TRUE]
    /\ posted' = checkDiscordSchedule(Val(discordPoll.timer), clock)
    /\ dispatched' = Dispatched(dispatched, posted')
    /\ UNCHANGED << mounted, timeVars, settingsVars, refreshVars, ntfyPoll,
                    steady, loadedAll, intervals, store, report, searchVars, sel >>

\* The wall clock enters the next minute.  An armed interval has fired once
\* in the minute that ends (or was armed in it).
AdvanceClock ==
    /\ elapsed < MaxMinutes - 1
    /\ Has(ntfyPoll.timer) => ntfyPoll.checked
    /\ Has(discordPoll.timer) => discordPoll.checked
    /\ clock' = (clock + 1) % MinutesPerDay
    /\ elapsed' = elapsed + 1
    /\ ntfyPoll' = [ntfyPoll EXCEPT !.checked = FALSE]
    /\ discordPoll' = [discordPoll EXCEPT !.checked = FALSE]
    /\ posted' = << >>
    /\ dispatched' = [ s \in Sinks |-> FALSE ]
    /\ UNCHANGED << mounted, settingsVars, refreshVars, searchVars, sel >>
    /\ steady' = [ s \in Sinks |-> SinkDue(s)' ]
    /\ loadedAll' = Loaded
    /\ UNCHANGED << intervals, store, report >>

\* --------------------------------------------------------- location search
SearchInputs == {"", " ", "cape", "cape "}

\* String.prototype.trim on the search texts
Trim(s) == IF s \in {"", " "} THEN "" ELSE IF s = "cape " THEN "cape" ELSE s

\* window.clearTimeout(searchTimer.current), guarded by `if (searchTimer.current)`
clearTimeout(timers, ref) ==
    IF Has(ref) THEN { t \in timers : t.id # Val(ref) } ELSE timers

\* a search effect that returns no cleanup function
searchCleanupNone(timers, ref, prevSearch) == timers

\* the cleanup function the search effect returned, when it returned one (the
\* blank branch returns none)
searchCleanup(timers, ref, prevSearch) ==
    IF Trim(prevSearch) # "" THEN clearTimeout(timers, ref) ELSE timers

\* window.setTimeout's fresh handle
FreshTimerId(timers, ref) ==
    CHOOSE i \in 1..(Cardinality(timers) + 2) :
        /\ \A t \in timers : t.id # i
        /\ ref # Some(i)

\* onSearchChange: setSearch(text); the [search] effect's cleanup and body
SearchChange(text) ==
    /\ mounted /\ text # search
    /\ search' = text
    /\ idle' = 0
    /\ requested' = None
    /\ LET cleaned == searchCleanup(pendingTimers, searchTimer, search)
       IN  IF Trim(text) = ""
           THEN /\ searchResults' = << >>
                /\ pendingTimers' = cleaned
                /\ UNCHANGED searchTimer
           ELSE LET id == FreshTimerId(cleaned, searchTimer)
                IN  /\ pendingTimers' = clearTimeout(cleaned, searchTimer)
                            \cup { [ id |-> id, query |-> Trim(text), left |-> DebounceTicks ] }
                    /\ searchTimer' = Some(id)
                    /\ UNCHANGED searchResults
    /\ UNCHANGED << mounted, timeVars, settingsVars, refreshVars, pollVars, geoInflight, sel >>

\* 100 ms pass
DebounceTick ==
    /\ pendingTimers # {} \/ idle < DebounceTicks
    /\ \A t \in pendingTimers : t.left > 0
    /\ pendingTimers' = { [t EXCEPT !.left = @ - 1] : t \in pendingTimers }
    /\ idle' = IF idle < DebounceTicks THEN idle + 1 ELSE idle
    /\ requested' = None
    /\ UNCHANGED << mounted, timeVars, settingsVars, refreshVars, pollVars, search,
                    searchResults, searchTimer, geoInflight, sel >>

\* the setTimeout callback, up to its await: geocode(search.trim())
SearchTimerFire(t) ==
    /\ t \in pendingTimers /\ t.left = 0
    /\ pendingTimers' = pendingTimers \ {t}
    /\ geoInflight' = geoInflight \cup {t.query}
    /\ requested' = Some(t.query)
    /\ UNCHANGED << mounted, timeVars, settingsVars, refreshVars, pollVars, search,
                    searchResults, searchTimer, idle, sel >>

\* geocode's answer: data.results ?? []
GeoResults(q, found) == IF found THEN << [ name |-> "Cape Town", query |-> q ] >> ELSE << >>

\* geocode resolves: setSearchResults(results)
GeocodeResolve(q, found) ==
    /\ q \in geoInflight
    /\ geoInflight' = geoInflight \ {q}
    /\ searchResults' = IF mounted THEN GeoResults(q, found) ELSE searchResults
    /\ requested' = None
    /\ UNCHANGED << mounted, timeVars, settingsVars, refreshVars, pollVars, search,
                    searchTimer, pendingTimers, idle, sel >>

\* geocode rejects: the catch branch, setSearchResults([])
GeocodeReject(q) ==
    /\ q \in geoInflight
    /\ geoInflight' = geoInflight \ {q}
    /\ searchResults' = IF mounted THEN << >> ELSE searchResults
    /\ requested' = None
    /\ UNCHANGED << mounted, timeVars, settingsVars, refreshVars, pollVars, search,
                    searchTimer, pendingTimers, idle, sel >>

\* selectLocation(r) on a displayed result: setLocation (the [refresh] effect
\* follows when the place differs), setSearch(''), setSearchResults([]); the
\* [search] effect's cleanup and blank branch follow when the text changed
selectLocation(i) ==
    /\ mounted /\ i \in 1..Len(searchResults) /\ InflightCount < MaxInflight
    /\ location' = OtherLocation
    /\ IF location # OtherLocation
       THEN StartRefresh(OtherLocation)
       ELSE UNCHANGED << loading, err, inflight >>
    /\ search' = ""
    /\ searchResults' = << >>
    /\ requested' = None
    /\ IF search # ""
       THEN /\ idle' = 0
            /\ pendingTimers' = searchCleanup(pendingTimers, searchTimer, search)
       ELSE UNCHANGED << idle, pendingTimers >>
    /\ UNCHANGED << mounted, timeVars, settingsVars, bundle, nowHour, lastResolved,
                    searchTimer, geoInflight, sel >>
    /\ Commit(FALSE, << >>)

\* The component unmounts: every effect's cleanup runs (clearInterval of both
\* polls, the search effect's cleanup); in-flight requests are not cancelled.
Unmount ==
    /\ mounted
    /\ mounted' = FALSE
    /\ ntfyPoll' = NoPoll
    /\ discordPoll' = NoPoll
    /\ posted' = << >>
    /\ steady' = [ s \in Sinks |-> FALSE ]
    /\ intervals' = [ s \in Sinks |->
            clearInterval(intervals[s],
                          IF s = "ntfy" THEN ntfyPoll.timer ELSE discordPoll.timer) ]
    /\ pendingTimers' = searchCleanup(pendingTimers, searchTimer, search)
    /\ requested' = None
    /\ UNCHANGED << timeVars, settingsVars, refreshVars, dispatched, loadedAll, store, report, search,
                    searchResults, searchTimer, geoInflight, idle, sel >>

\* ------------------------------------------------------ the selector check
Instants == 0..MaxInstant

SeqsUpTo(S, n) == UNION { [1..k -> S] : k \in 0..n }

HourRecords(times) == [ i \in 1..Len(times) |-> [ time |-> times[i] ] ]

SelIdle == [ hours |-> << >>, now |-> 0, done |-> TRUE, index |-> 0, bestIdx |-> 0 ]

\* nowHour and the standalone sender's scan on the same series and instant
SelectNow ==
    /\ ~sel.done
    /\ sel' = [sel EXCEPT !.done = TRUE,
                          !.index = nowHourIndex(HourRecords(sel.hours), sel.now),
                          !.bestIdx = IF Len(sel.hours) = 0 THEN 0
                                      ELSE bestIdxOf(sel.hours, sel.now)]
    /\ UNCHANGED << mounted, timeVars, settingsVars, refreshVars, pollVars, searchVars >>

\* ------------------------------------------------- openMeteo.fetchForecast
\* The hourly arrays of the two responses are JSON: an array is None when
\* the response has no such member (or it is no array), its entries are
\* numbers or null.  Of the sample's fields the merge is modelled for time,
\* windGusts10mKmh (as every optional weather field: arr[i]) and waveHeightM
\* (as every marine field: mi == null ? undefined : arr[mi]).
NumberOf(x) == IF x.t = "num" THEN x.n ELSE 0

\* asNumberArray: [] for a non-array; typeof x === 'number' ? x : Number(x),
\* and Number(null) is 0
asNumberArray(v) ==
    IF ~Has(v) THEN << >> ELSE [ i \in 1..Len(Val(v)) |-> NumberOf(Val(v)[i]) ]

\* asStringArray: [] for a non-array; String(x) of a string is the string
asStringArray(v) == IF ~Has(v) THEN << >> ELSE Val(v)

\* arr[i] of a JavaScript array (i counted from 1 here): undefined past the end
At(arr, i) == IF i \in 1..Len(arr) THEN Some(arr[i]) ELSE None

\* waveHeight[i]: the marine series read by position
marineLookupByPosition(marineTime, time, i) ==
    IF i \in 1..Len(marineTime) THEN Some(i) ELSE None

\* marineIndex.get(time[i]): the map is filled in series order, so the last
\* marine entry with the timestamp wins; undefined when there is none
marineLookup(marineTime, time, i) ==
    LET same == { j \in 1..Len(marineTime) : marineTime[j] = time[i] }
    IN  IF same = {} THEN None
        ELSE Some(CHOOSE j \in same : \A k \in same : k <= j)

\* hours of fetchForecast(weather, marine)
fetchForecastHours(weather, marine) ==
    LET time == asStringArray(weather.time)
        windGusts == asNumberArray(weather.wind_gusts_10m)
        marineTime == asStringArray(marine.time)
        waveHeight == asNumberArray(marine.wave_height)
    IN  [ i \in 1..Len(time) |->
            LET mi == marineLookup(marineTime, time, i)
            IN  [ time |-> time[i],
                  windGusts10mKmh |-> At(windGusts, i),
                  waveHeightM |-> IF ~Has(mi) THEN None ELSE At(waveHeight, Val(mi)) ] ]

TimeTexts == {"2024-05-01T07:00", "2024-05-01T08:00"}
HourlyEntries == { JNull, JNum(0), JNum(MaxNum) }
HourlyTimes == {None} \cup { Some(q) : q \in SeqsUpTo(TimeTexts, MaxSeries) }
HourlyValues == {None} \cup { Some(q) : q \in SeqsUpTo(HourlyEntries, MaxSeries) }
WeatherResponses == [ time : HourlyTimes, wind_gusts_10m : HourlyValues ]
MarineResponses == [ time : HourlyTimes, wave_height : HourlyValues ]

\* await fetchForecast(...): both responses have arrived and are merged
FetchForecastMerge ==
    /\ ~sel.done
    /\ sel' = [sel EXCEPT !.done = TRUE,
                          !.hours = fetchForecastHours(sel.weather, sel.marine)]
    /\ UNCHANGED << mounted, timeVars, settingsVars, refreshVars, pollVars, searchVars >>

\* ---------------------------------------------------- message composition
\* Samples: 20 km/h from 45 degrees at 18 degrees Celsius, with each
\* optional field absent, present as 0, or present as a positive value.
RainInputs == { None, Some(0), Some(10), Some(30), Some(31), Some(55) }

SampleHours ==
    { [ Hour(420, 200, 45, 180, rain, gust, wave)
          EXCEPT !.pressureMslHpa = pressure, !.visibilityM = vis, !.waterTempC = water ] :
        rain \in RainInputs, gust \in {None, Some(0), Some(305)},
        wave \in {None, Some(0), Some(12)}, pressure \in {None, Some(0), Some(1013)},
        vis \in {None, Some(0), Some(24140)}, water \in {None, Some(0), Some(165)} }

SampleBundle == ForecastBundle(DEFAULT_LOCATION, << >>)

\* customSettings: the card details picked for the custom view
CustomInputs == { [ cardDetails |-> << >> ], [ cardDetails |-> << "gusts", "waves" >> ] }

\* getViewModeSpecificMessage(bundle, nowHour, unit, temperatureUnit, viewMode)
ComposeMessage ==
    /\ ~sel.done
    /\ sel' = [sel EXCEPT !.done = TRUE,
                          !.message = getViewModeSpecificMessage(SampleBundle, sel.hour,
                                          sel.unit, sel.temperatureUnit, sel.viewMode)]
    /\ UNCHANGED << mounted, timeVars, settingsVars, refreshVars, pollVars, searchVars >>

\* --------------------------------------------------- directions and bands
\* whole degrees over MaxTurns turns either side of the first
DegInputs == (0 - MaxTurns * 360)..(MaxTurns * 360 + 359)

\* degToCompass(deg) and degToCompass(deg + 360), in the app and in the
\* standalone sender
CompassOf ==
    /\ ~sel.done
    /\ sel' = [sel EXCEPT !.done = TRUE,
                          !.compass = degToCompass(sel.deg),
                          !.compassNext = degToCompass(sel.deg + 360),
                          !.sender = senderDegToCompass(sel.deg),
                          !.senderNext = senderDegToCompass(sel.deg + 360)]
    /\ UNCHANGED << mounted, timeVars, settingsVars, refreshVars, pollVars, searchVars >>

\* wind speeds in tenths of a km/h up to 45 km/h
SpeedInputs == 0..450

\* the samples of the surfer check: every direction of the first turn at
\* 20 km/h, and every speed from 45 degrees
SurferHours ==
    { Hour(420, 200, d, 180, None, None, None) : d \in 0..359 }
        \cup { Hour(420, v, 45, 180, None, None, None) : v \in SpeedInputs }

\* getViewModeSpecificMessage(bundle, nowHour, unit, temperatureUnit, 'surfer')
ComposeSurfer ==
    /\ ~sel.done
    /\ sel' = [sel EXCEPT !.done = TRUE,
                          !.message = getViewModeSpecificMessage(
                                          ForecastBundle(DEFAULT_LOCATION, << >>),
                                          sel.hour, "kmh", "celsius", "surfer")]
    /\ UNCHANGED << mounted, timeVars, settingsVars, refreshVars, pollVars, searchVars >>

\* -------------------------------------------- DiscordSettings: the form
\* the exported singleton: new DiscordNotificationService({ webhookUrl: '',
\* enabled: false, ... }); its config is private and never assigned again
discordService == [ enabled |-> FALSE, webhookUrl |-> "" ]

\* testConnection of a service with the given config, its POST (if one is
\* issued) ending with the outcome: false without a POST when disabled or
\* without URL; response.ok; false from the catch
testConnection(config, outcome) ==
    IF ~config.enabled \/ config.webhookUrl = "" THEN FALSE
    ELSE outcome = "ok"

TestSucceeded == "Connection successful! Discord notification sent."
TestFailed == "Connection failed. Check webhook URL and Discord server status."

\* the form of a DiscordSettings opened with currentConfig
FormOf(currentConfig) ==
    [ config |-> currentConfig, testResult |-> "", isTesting |-> FALSE,
      tested |-> FALSE, outcome |-> "ok" ]

\* the enabled checkbox and the URL field: setConfig({ ...config, ... })
FormChange(config) ==
    /\ mounted /\ config # sel.config
    /\ sel' = [sel EXCEPT !.config = config]
    /\ UNCHANGED << mounted, timeVars, settingsVars, refreshVars, pollVars, searchVars >>

\* handleTest from the click to the finally: the button is disabled without
\* a URL; the service asked is the singleton; a test POST would end with
\* the outcome o
HandleTest(o) ==
    /\ mounted /\ ~sel.isTesting /\ sel.config.webhookUrl # ""
    /\ sel' = [sel EXCEPT !.testResult = IF testConnection(discordService, o)
                                         THEN TestSucceeded ELSE TestFailed,
                          !.isTesting = FALSE,
                          !.tested = TRUE,
                          !.outcome = o]
    /\ UNCHANGED << mounted, timeVars, settingsVars, refreshVars, pollVars, searchVars >>

\* handleSave: onSave(config)
HandleSave == DiscordSave(sel.config)

\* ------------------------------------------ standalone sender: send hours
\* The items of BW_SEND_HOURS between the commas
CsvItems == {"7", " 18 ", "x", "", " ", "24", "6.5", "-1"}

\* s.trim()
trimItem(s) == IF s = " 18 " THEN "18" ELSE IF s = " " THEN "" ELSE s

\* Number(s) of a trimmed, non-empty item, in tenths; None for NaN
numberOfItem(s) ==
    IF s = "7" THEN Some(70)
    ELSE IF s = "18" THEN Some(180)
    ELSE IF s = "24" THEN Some(240)
    ELSE IF s = "6.5" THEN Some(65)
    ELSE IF s = "-1" THEN Some(0 - 10)
    ELSE None

\* .sort((a, b) => a - b) of a set of numbers
RECURSIVE sortAscending(_)
sortAscending(S) ==
    IF S = {} THEN << >>
    ELSE LET least == CHOOSE x \in S : \A y \in S : x <= y
         IN  << least >> \o sortAscending(S \ {least})

\* parseHoursCsv of the items: trim, drop empty ones, Number, drop the
\* non-finite, Math.round, keep 0..23, then Array.from(new Set(...)).sort
parseHoursCsv(items) ==
    LET trimmed == [ i \in 1..Len(items) |-> trimItem(items[i]) ]
        kept == { i \in 1..Len(items) :
                    trimmed[i] # "" /\ Has(numberOfItem(trimmed[i])) }
        rounded == { RoundDiv(Val(numberOfItem(trimmed[i])), 10) : i \in kept }
    IN  sortAscending({ n \in rounded : n >= 0 /\ n <= 23 })

Min(a, b) == IF a < b THEN a ELSE b
Max(a, b) == IF a > b THEN a ELSE b

\* main's decision at the given hour: TRUE when it goes on to send
shouldSend(hoursList, sendsPerDay, hour) ==
    IF Len(hoursList) # 0
    THEN \E i \in 1..Len(hoursList) : hoursList[i] = hour
    ELSE IF sendsPerDay <= 0 THEN FALSE
    ELSE LET interval == 24 \div Min(24, Max(1, sendsPerDay))
         IN  hour % Max(1, interval) = 0

\* BW_SENDS_PER_DAY as a whole number
SendsPerDayInputs == (0 - 1)..25

\* the script run at every hour of a day with one configuration
RunDay ==
    /\ ~sel.done
    /\ sel' = [sel EXCEPT !.done = TRUE,
                          !.hoursList = parseHoursCsv(sel.sendHoursCsv),
                          !.sent = { h \in 0..23 :
                                       shouldSend(parseHoursCsv(sel.sendHoursCsv),
                                                  sel.sendsPerDay, h) }]
    /\ UNCHANGED << mounted, timeVars, settingsVars, refreshVars, pollVars, searchVars >>

\* ------------------------------------------------------------------- Init
\* The state after mount with the persisted settings n0, d0 at wall-clock
\* minute c0: the [refresh] effect has started the first fetch.
InitApp(n0, d0, c0) ==
    /\ mounted = TRUE
    /\ clock = c0
    /\ elapsed = 0
    /\ unit = "kmh"
    /\ temperatureUnit = "celsius"
    /\ viewMode = "casual"
    /\ ntfy = n0
    /\ discordConfig = d0
    /\ location = DEFAULT_LOCATION
    /\ bundle = None
    /\ nowHour = None
    /\ loading = TRUE
    /\ err = None
    /\ inflight = [ l \in Locations |-> IF l = DEFAULT_LOCATION THEN 1 ELSE 0 ]
    /\ lastResolved = None
    /\ ntfyPoll = NoPoll
    /\ discordPoll = NoPoll
    /\ posted = << >>
    /\ dispatched = [ s \in Sinks |-> FALSE ]
    /\ steady = [ s \in Sinks |-> SinkDue(s) ]
    /\ loadedAll = FALSE
    /\ intervals = [ s \in Sinks |-> 0 ]
    /\ prefs = [ theme |-> "light", showArcReactor |-> TRUE ]
    /\ store = writeAll([ k \in StoreKeys |-> NoEntry ])
    /\ report = NoReport
    /\ search = ""
    /\ searchResults = << >>
    /\ searchTimer = None
    /\ pendingTimers = {}
    /\ geoInflight = {}
    /\ requested = None
    /\ idle = DebounceTicks

\* readJson's fallbacks
DefaultNtfy == [ enabled |-> FALSE, topic |-> "", schedule |-> << >> ]
DefaultDiscord == [ enabled |-> FALSE, webhookUrl |-> "" ]

Init ==
    /\ InitApp(DefaultNtfy, DefaultDiscord, StartMinute)
    /\ sel = SelIdle

\* Scheduling: both sinks are configured while forecasts load and the minutes
\* pass.
Next ==
    \/ \E u \in UnitInputs : SetUnit(u)
    \/ \E t \in TopicInputs : NtfyTopicChange(t)
    \/ NtfyEnabledChange
    \/ NtfyScheduleAdd
    \/ \E i \in 1..MaxSchedule : NtfyScheduleRemove(i)
    \/ OnSend
    \/ \E c \in DiscordConfigs : DiscordSave(c)
    \/ ManualRefresh
    \/ \E h \in {HoursOf(DEFAULT_LOCATION), << >>} : FetchSucceed(DEFAULT_LOCATION, h)
    \/ FetchFail(DEFAULT_LOCATION)
    \/ NtfyTick
    \/ DiscordTick
    \/ AdvanceClock
    \/ Unmount

Spec == Init /\ [][Next]_vars

\* A day: both sinks were configured in an earlier session, with the schedule
\* 07:00 and 18:00; the page is opened at any minute of the day, the forecast
\* arrives and the minutes pass.
DaySchedule == << "07:00", "18:00" >>

InitDay ==
    /\ \E c \in 0..(MinutesPerDay - 1) :
          InitApp([ enabled |-> TRUE, topic |-> "bw-alerts", schedule |-> DaySchedule ],
                  [ enabled |-> TRUE, webhookUrl |-> "https://discord.test/hook" ], c)
    /\ sel = SelIdle

NextDay ==
    \/ FetchSucceed(DEFAULT_LOCATION, HoursOf(DEFAULT_LOCATION))
    \/ NtfyTick
    \/ DiscordTick
    \/ AdvanceClock

SpecDay == InitDay /\ [][NextDay]_vars

\* The selector alone: any series of up to MaxHours timestamps drawn from
\* Instants, in any order and with repetitions, and any reference instant.
InitSel ==
    /\ InitApp(DefaultNtfy, DefaultDiscord, StartMinute)
    /\ sel \in [ hours : SeqsUpTo(Instants, MaxHours), now : Instants,
                  done : {FALSE}, index : {0}, bestIdx : {0} ]

NextSel == SelectNow

SpecSel == InitSel /\ [][NextSel]_vars

\* Display settings: both sinks were configured in an earlier session with
\* the schedule 07:00; the user changes units, view mode and the scheduled
\* time while the forecast arrives and the minutes pass.
InitMsg ==
    /\ InitApp([ enabled |-> TRUE, topic |-> "bw-alerts", schedule |-> << "07:00" >> ],
               [ enabled |-> TRUE, webhookUrl |-> "https://discord.test/hook" ],
               StartMinute)
    /\ sel = SelIdle

NextMsg ==
    \/ \E u \in UnitInputs : SetUnit(u)
    \/ \E tu \in TemperatureInputs : SetTemperatureUnit(tu)
    \/ \E vm \in ViewModeInputs : SetViewMode(vm)
    \/ \E t \in TimeInputs : NtfyScheduleEdit(1, t)
    \/ FetchSucceed(DEFAULT_LOCATION, HoursOf(DEFAULT_LOCATION))
    \/ NtfyTick
    \/ DiscordTick
    \/ AdvanceClock

SpecMsg == InitMsg /\ [][NextMsg]_vars

\* Refreshing: the user switches between two saved locations and presses the
\* refresh button while fetches resolve or fail in any order and the minutes
\* pass.
InitRefresh ==
    /\ InitApp(DefaultNtfy, DefaultDiscord, StartMinute)
    /\ sel = SelIdle

NextRefresh ==
    \/ \E l \in Locations : SetLocation(l)
    \/ ManualRefresh
    \/ \E l \in Locations : \E h \in {HoursOf(l), << >>} : FetchSucceed(l, h)
    \/ \E l \in Locations : FetchFail(l)
    \/ AdvanceClock

SpecRefresh == InitRefresh /\ [][NextRefresh]_vars

\* Searching: the user types and clears the search text while time passes,
\* lookups resolve or fail, and the component is torn down at any moment.
InitSearch ==
    /\ InitApp(DefaultNtfy, DefaultDiscord, StartMinute)
    /\ sel = SelIdle

NextSearch ==
    \/ \E text \in SearchInputs : SearchChange(text)
    \/ DebounceTick
    \/ \E t \in pendingTimers : SearchTimerFire(t)
    \/ \E q \in geoInflight, found \in BOOLEAN : GeocodeResolve(q, found)
    \/ \E q \in geoInflight : GeocodeReject(q)
    \/ Unmount

SpecSearch == InitSearch /\ [][NextSearch]_vars

\* Picking a place: typing, lookups that answer late, and selecting a result
NextPick ==
    \/ \E text \in SearchInputs : SearchChange(text)
    \/ DebounceTick
    \/ \E t \in pendingTimers : SearchTimerFire(t)
    \/ \E q \in geoInflight, found \in BOOLEAN : GeocodeResolve(q, found)
    \/ \E q \in geoInflight : GeocodeReject(q)
    \/ \E i \in 1..Len(searchResults) : selectLocation(i)
    \/ \E l \in Locations : FetchSucceed(l, HoursOf(l))

SpecPick == InitSearch /\ [][NextPick]_vars

\* Settings: the user changes every setting the component keeps in storage.
ThemeInputs == {"light", "dark"}

InitStore ==
    /\ InitApp(DefaultNtfy, DefaultDiscord, StartMinute)
    /\ sel = SelIdle

NextStore ==
    \/ \E u \in UnitInputs : SetUnit(u)
    \/ \E tu \in TemperatureInputs : SetTemperatureUnit(tu)
    \/ \E vm \in ViewModeInputs : SetViewMode(vm)
    \/ \E th \in ThemeInputs : SetTheme(th)
    \/ \E b \in BOOLEAN : SetShowArcReactor(b)
    \/ \E t \in TopicInputs : NtfyTopicChange(t)
    \/ NtfyEnabledChange
    \/ \E c \in DiscordConfigs : DiscordSave(c)
    \/ \E l \in Locations : SetLocation(l)

SpecStore == InitStore /\ [][NextStore]_vars

\* Merging: fetchForecast on any pair of responses
InitMerge ==
    /\ InitApp(DefaultNtfy, DefaultDiscord, StartMinute)
    /\ sel \in [ weather : WeatherResponses, marine : MarineResponses,
                  done : {FALSE}, hours : {<< >>} ]

NextMerge == FetchForecastMerge

SpecMerge == InitMerge /\ [][NextMerge]_vars

\* Composing: the message for any sample, units and view mode
InitCompose ==
    /\ InitApp(DefaultNtfy, DefaultDiscord, StartMinute)
    /\ sel \in [ hour : SampleHours, unit : UnitInputs, temperatureUnit : TemperatureInputs,
                  viewMode : ViewModes, customSettings : CustomInputs,
                  done : {FALSE}, message : {""} ]

NextCompose == ComposeMessage

SpecCompose == InitCompose /\ [][NextCompose]_vars

\* Compass: degToCompass on any whole degree
InitCompass ==
    /\ InitApp(DefaultNtfy, DefaultDiscord, StartMinute)
    /\ sel \in [ deg : DegInputs, done : {FALSE}, compass : {""}, compassNext : {""},
                  sender : {""}, senderNext : {""} ]

NextCompass == CompassOf

SpecCompass == InitCompass /\ [][NextCompass]_vars

\* Surfer report: any direction, any speed
InitSurfer ==
    /\ InitApp(DefaultNtfy, DefaultDiscord, StartMinute)
    /\ sel \in [ hour : SurferHours, done : {FALSE}, message : {""} ]

NextSurfer == ComposeSurfer

SpecSurfer == InitSurfer /\ [][NextSurfer]_vars

\* Between two samples: the forecast has the hours 07:00 and 08:00, the page
\* is opened shortly before 07:30 and both sinks are scheduled for 07:31.
HalfPast == 7 * 60 + 30

InitStale ==
    /\ \E c \in (HalfPast - MaxMinutes)..(HalfPast - 1) :
          InitApp([ enabled |-> TRUE, topic |-> "bw-alerts", schedule |-> << "07:31" >> ],
                  [ enabled |-> TRUE, webhookUrl |-> "https://discord.test/hook" ], c)
    /\ sel = SelIdle

NextStale ==
    \/ FetchSucceed(DEFAULT_LOCATION, HoursOf(DEFAULT_LOCATION))
    \/ ManualRefresh
    \/ \E u \in UnitInputs : SetUnit(u)
    \/ \E vm \in ViewModeInputs : SetViewMode(vm)
    \/ NtfyTick
    \/ DiscordTick
    \/ AdvanceClock

SpecStale == InitStale /\ [][NextStale]_vars

\* The webhook form: editing, testing and saving while the forecast arrives
InitTest ==
    /\ InitApp(DefaultNtfy, DefaultDiscord, StartMinute)
    /\ sel = FormOf(DefaultDiscord)

NextTest ==
    \/ \E c \in DiscordConfigs : FormChange(c)
    \/ \E o \in Outcomes : HandleTest(o)
    \/ HandleSave
    \/ FetchSucceed(DEFAULT_LOCATION, HoursOf(DEFAULT_LOCATION))
    \/ AdvanceClock

SpecTest == InitTest /\ [][NextTest]_vars

\* The standalone sender run through a day under any configuration
InitSender ==
    /\ InitApp(DefaultNtfy, DefaultDiscord, StartMinute)
    /\ sel \in [ sendHoursCsv : SeqsUpTo(CsvItems, MaxCsv), sendsPerDay : SendsPerDayInputs,
                  done : {FALSE}, hoursList : {<< >>}, sent : {{}} ]

NextSender == RunDay

SpecSender == InitSender /\ [][NextSender]_vars

\* Sending: scheduled and manual sends and direct calls of the webhook
\* service, each POST ending in any of the three ways.
RemoveAt(q, i) == [ j \in 1..(Len(q) - 1) |-> IF j < i THEN q[j] ELSE q[j + 1] ]

\* The i-th POST of the last step ends with the outcome o: the dispatcher's
\* continuation and its caller's run; neither sets any state.
PostSettle(i, o) ==
    /\ i \in 1..Len(posted)
    /\ report' = Settlement(posted[i], o)
    /\ posted' = RemoveAt(posted, i)
    /\ UNCHANGED << mounted, timeVars, settingsVars, refreshVars, ntfyPoll, discordPoll,
                    dispatched, steady, loadedAll, intervals, store, searchVars, sel >>

\* await service.sendWeatherAlert(message, locationName) on a service built
\* from any config
SendWeatherAlert(config, message) ==
    /\ posted' = sendWeatherAlert(config, message, FALSE)
    /\ report' = NoReport
    /\ UNCHANGED << mounted, timeVars, settingsVars, refreshVars, ntfyPoll, discordPoll,
                    dispatched, steady, loadedAll, intervals, store, searchVars, sel >>

InitSend ==
    /\ InitApp([ enabled |-> TRUE, topic |-> "bw-alerts", schedule |-> << "07:00" >> ],
               [ enabled |-> TRUE, webhookUrl |-> "https://discord.test/hook" ],
               StartMinute)
    /\ sel = SelIdle

NextSend ==
    \/ FetchSucceed(DEFAULT_LOCATION, HoursOf(DEFAULT_LOCATION))
    \/ OnSend
    \/ NtfyTick
    \/ DiscordTick
    \/ AdvanceClock
    \/ \E c \in DiscordConfigs : SendWeatherAlert(c, "msg")
    \/ \E i \in 1..MaxPosts : \E o \in Outcomes : PostSettle(i, o)

SpecSend == InitSend /\ [][NextSend]_vars

\* Storage alone: any JSON value is written under a key whose entry is the
\* one the mount wrote, is missing or is damaged; entries are removed or
\* damaged from outside (another tab, the user).
JsonPieces == {"a", QUOTE, BACKSLASH}
JsonScalars ==
    {JNull} \cup { JBool(b) : b \in BOOLEAN } \cup { JNum(n) : n \in JsonNumbers }
        \cup { JStr(p) : p \in SeqsUpTo(JsonPieces, MaxLen) }
JsonElems ==
    { JNull, JBool(TRUE), JNum(MaxNum), JStr(<< >>), JStr(<< QUOTE, BACKSLASH >>),
      JArr(<< >>) }
JsonKeys == { << "k" >>, << "a", QUOTE >> }
JsonMembers == { << k, v >> : k \in JsonKeys, v \in JsonElems }
JsonNested ==
    { JsonNtfy([ enabled |-> TRUE, topic |-> "bw-alerts", schedule |-> DaySchedule ]),
      JArr(<< JArr(<< >>), JObj(<< << << "k" >>, JArr(<< JNum(0) >>) >> >>) >>) }
JsonValues ==
    JsonScalars \cup { JArr(xs) : xs \in SeqsUpTo(JsonElems, MaxItems) }
        \cup { JObj(kvs) : kvs \in SeqsUpTo(JsonMembers, MaxItems) }
        \cup JsonNested

\* stored texts that are no JSON: empty, a bare word, an unclosed object, a
\* trailing comma, an unclosed string, two values
CorruptTexts ==
    { << >>, << "kmh" >>, << "{" >>, << "[", "1", ",", "]" >>, << QUOTE, "a" >>,
      << "1", "1" >>, << "undefined" >> }

JsonKey == "bw_ntfy"

MountEntry == writeAll([ k \in StoreKeys |-> NoEntry ])[JsonKey]

\* writeJson(key, v)
WriteStore(v) ==
    /\ ~Has(store[JsonKey].given) \/ store[JsonKey] = MountEntry
    /\ store' = writeJson(store, JsonKey, v)
    /\ UNCHANGED << mounted, timeVars, settingsVars, refreshVars, ntfyPoll, discordPoll,
                    posted, dispatched, steady, loadedAll, intervals, report, searchVars, sel >>

\* localStorage.removeItem / setItem from outside the component
DamageStore(raw) ==
    /\ store[JsonKey].raw # raw
    /\ store' = [ store EXCEPT ![JsonKey] = [ raw |-> raw, given |-> None ] ]
    /\ UNCHANGED << mounted, timeVars, settingsVars, refreshVars, ntfyPoll, discordPoll,
                    posted, dispatched, steady, loadedAll, intervals, report, searchVars, sel >>

InitJson ==
    /\ InitApp(DefaultNtfy, DefaultDiscord, StartMinute)
    /\ sel = SelIdle

NextJson ==
    \/ \E v \in JsonValues : WriteStore(v)
    \/ \E raw \in {None} \cup { Some(txt) : txt \in CorruptTexts } : DamageStore(raw)

SpecJson == InitJson /\ [][NextJson]_vars

\* ------------------------------------------------- properties of dispatch
\* The number of scheduled POSTs to sink s among posts
RECURSIVE ScheduledCount(_, _)
ScheduledCount(posts, s) ==
    IF Len(posts) = 0 THEN 0
    ELSE (IF Head(posts).sink = s /\ Head(posts).scheduled THEN 1 ELSE 0)
            + ScheduledCount(Tail(posts), s)

NoSample == ~Has(bundle) \/ Len(Val(bundle).hours) = 0

\* C1: in any single minute each sink receives at most one scheduled POST: a
\* step issues at most one to a sink, and none to a sink that already got
\* one in the minute the clock still shows, however the interval's ticks
\* interleave with state changes that re-arm the poll, duplicate schedule
\* entries included.
C1_OncePerMinute ==
    [][ \A s \in Sinks :
          ScheduledCount(posted', s)
            + (IF clock' = clock /\ dispatched[s] THEN 1 ELSE 0) <= 1 ]_vars

\* C2 as stated: a sink that is enabled, has a destination and finds the
\* minute in the schedule from the minute's first instant to its last, the
\* component mounted throughout, has got a dispatch when the minute ends.
C2_DueSinkDispatched ==
    [][ clock' # clock => \A s \in Sinks : steady[s] => dispatched[s] ]_vars

\* C2, amended: the same, for a minute throughout which a bundle with at least
\* one hour was loaded as well.
C2_DueLoadedSinkDispatched ==
    [][ clock' # clock =>
          \A s \in Sinks : (steady[s] /\ loadedAll) => dispatched[s] ]_vars

\* C2: the scheduled minute was entered by the clock with a bundle loaded and
\* the pub/sub sink due, and the sink got its dispatch.
C2_Witness ==
    /\ elapsed > 0 /\ clock = StartMinute + 1
    /\ steady["ntfy"] /\ loadedAll /\ dispatched["ntfy"]

\* C5: while no bundle is loaded or its hourly series is empty, the selector
\* has no sample, the condensed message is the empty string, no step issues a
\* POST, and neither a scheduled check nor "Send now" touches the error.
C5_NoSampleNoPost ==
    [][ NoSample' =>
          /\ nowHour' = None
          /\ condensedMessage(bundle', nowHour', unit') = ""
          /\ posted' = << >>
          /\ (OnSend \/ NtfyTick \/ DiscordTick) => err' = err ]_vars

\* C5: a bundle with an empty hourly series is loaded in the scheduled minute
\* with the pub/sub sink due all along, and nothing was sent.
C5_Witness ==
    /\ Has(bundle) /\ Len(Val(bundle).hours) = 0
    /\ clock = StartMinute + 1 /\ steady["ntfy"]
    /\ nowHour = None /\ posted = << >> /\ ~dispatched["ntfy"]

\* C7: a scheduled POST goes to a sink only while that sink's own flag is on
\* and its own destination is non-empty, and to that destination; whether a
\* sink's poll is armed is a function of its own flag and destination (and of
\* the shared schedule and forecast), never of the other sink's.
C7_OwnGate ==
    /\ \A i \in 1..Len(posted) :
          posted[i].scheduled =>
            IF posted[i].sink = "ntfy"
            THEN ntfy.enabled /\ ntfy.topic # "" /\ posted[i].dest = ntfy.topic
            ELSE /\ discordConfig.enabled /\ discordConfig.webhookUrl # ""
                 /\ posted[i].dest = discordConfig.webhookUrl
    /\ Has(ntfyPoll.timer) <=>
          /\ mounted /\ ntfy.enabled /\ ntfy.topic # "" /\ Len(ntfy.schedule) > 0
          /\ Has(bundle) /\ Has(nowHour)
    /\ Has(discordPoll.timer) <=>
          /\ mounted /\ discordConfig.enabled /\ discordConfig.webhookUrl # ""
          /\ Has(bundle) /\ Has(nowHour)

\* C7: the webhook got its scheduled POST while the pub/sub sink was off and
\* had no topic.
C7_Witness ==
    /\ ~ntfy.enabled /\ ntfy.topic = ""
    /\ \E i \in 1..Len(posted) : posted[i].sink = "discord" /\ posted[i].scheduled

\* C3: a schedule check fires exactly when the local time as zero-padded
\* 24-hour "HH:MM" is an element of the schedule: every scheduled POST is
\* issued in such a minute, a poll that has run its check in the current
\* minute has dispatched if and only if the minute is in the schedule, and
\* with the schedule 07:00, 18:00 that is at 07:00 and at 18:00 and at no
\* other minute (so not at 06:59 or 07:01).
C3_FiresOnMatch ==
    /\ \A i \in 1..Len(posted) :
          posted[i].scheduled => includes(ntfy.schedule, HHMM(clock))
    /\ (Has(ntfyPoll.timer) /\ ntfyPoll.checked) =>
          (dispatched["ntfy"] <=> includes(ntfy.schedule, HHMM(clock)))
    /\ (Has(discordPoll.timer) /\ discordPoll.checked) =>
          (dispatched["discord"] <=> includes(ntfy.schedule, HHMM(clock)))
    /\ \A s \in Sinks : dispatched[s] => clock \in {7 * 60, 18 * 60}
    /\ (Has(ntfyPoll.timer) /\ ntfyPoll.checked /\ clock \in {7 * 60, 18 * 60}) =>
          dispatched["ntfy"]

\* C3: the interval's tick at 18:00 has dispatched to both sinks after the
\* clock moved on from 17:59.
C3_Witness ==
    /\ clock = 18 * 60 /\ elapsed > 0
    /\ ntfyPoll.checked /\ dispatched["ntfy"] /\ dispatched["discord"]

\* index k of series times is as close to instant now as any, and closer than
\* every index before it
NearestFirst(times, now, k) ==
    /\ k \in 1..Len(times)
    /\ \A j \in 1..Len(times) : Abs(times[k] - now) <= Abs(times[j] - now)
    /\ \A j \in 1..(k - 1) : Abs(times[k] - now) < Abs(times[j] - now)

\* C4: over a non-empty series the selector returns the element with the
\* least |timestamp - t|, and among equally close elements the one with the
\* smallest index; the standalone sender's scan picks the same index.
C4_NearestFirstIndex ==
    (sel.done /\ Len(sel.hours) > 0) =>
        /\ NearestFirst(sel.hours, sel.now, sel.index)
        /\ NearestFirst(sel.hours, sel.now, sel.bestIdx)

\* C4: the selector ran on a series whose last element ties with an earlier
\* one, and returned the earlier.
C4_Witness ==
    /\ sel.done /\ Len(sel.hours) = MaxHours /\ sel.index = 1
    /\ sel.hours[MaxHours] # sel.hours[1]
    /\ Abs(sel.hours[MaxHours] - sel.now) = Abs(sel.hours[1] - sel.now)

\* C6: every scheduled POST, to the pub/sub sink and to the webhook alike,
\* carries the message composed from the bundle, selected sample, wind unit,
\* temperature unit and view mode in force at the instant it is issued; so
\* the two sinks are handed the same text.
C6_SameCurrentMessage ==
    \A i \in 1..Len(posted) :
        posted[i].scheduled =>
            /\ Has(bundle) /\ Has(nowHour)
            /\ posted[i].body =
                  getViewModeSpecificMessage(Val(bundle), Val(nowHour), unit,
                                             temperatureUnit, viewMode)

\* C8: refreshes are neither cancelled nor sequenced, so the response that
\* resolves last wins: whenever the last fetch to complete succeeded, the
\* bundle held is that fetch's, whatever the current location is.
C8_LastResolvedWins ==
    (Has(lastResolved) /\ Val(lastResolved).ok) =>
        Has(bundle) /\ Val(bundle).locationName = Val(lastResolved).loc

\* C8: no fetch is in flight, the bundle is the one for Langebaan, whose
\* fetch resolved last, and the current location is Cape Town.
C8_Witness ==
    /\ InflightCount = 0 /\ location = OtherLocation
    /\ Has(bundle) /\ Val(bundle).locationName = DEFAULT_LOCATION
    /\ lastResolved = Some([ loc |-> DEFAULT_LOCATION, ok |-> TRUE ])

\* C9: a refresh that fails sets the error and leaves the bundle loaded
\* before it as it is, and starts no other fetch.
C9_FailureKeepsBundle ==
    [][ (\E l \in Locations : FetchFail(l)) =>
          /\ Has(err')
          /\ bundle' = bundle
          /\ InflightCount' = InflightCount - 1 ]_vars

\* C10: the search is debounced: at most one timer is pending, and it is the
\* one the latest change of the text set (every change cancelled the timer
\* pending before it, and a blank text leaves none); a geocoding request is
\* issued only for the non-blank trimmed text that has stood unchanged for
\* the whole debounce time, and only while the component is mounted.
C10_Debounced ==
    /\ Cardinality(pendingTimers) <= 1
    /\ \A t \in pendingTimers :
          /\ mounted
          /\ searchTimer = Some(t.id)
          /\ t.query = Trim(search) /\ t.query # ""
          /\ t.left = DebounceTicks - idle
    /\ Has(requested) =>
          /\ mounted
          /\ Val(requested) = Trim(search) /\ Val(requested) # ""
          /\ idle = DebounceTicks

\* C10: after the text stood at "cape " for the debounce time, the lookup for
\* "cape" was issued and no timer is left.
C10_Witness ==
    /\ requested = Some("cape") /\ search = "cape "
    /\ idle = DebounceTicks /\ pendingTimers = {}

\* Sink s is switched off, has no destination, or the component is unmounted
SinkOff(s) ==
    \/ ~mounted
    \/ IF s = "ntfy" THEN ~ntfy.enabled \/ ntfy.topic = ""
       ELSE ~discordConfig.enabled \/ discordConfig.webhookUrl = ""

\* C11: at every moment at most one polling interval is live per sink, and it
\* is the one of the latest effect run (each re-run cleared the one before);
\* a sink that is disabled, has an empty destination or whose component is
\* unmounted has no live interval, so no check runs for it, and the step
\* that left it so issued no scheduled POST to it.
C11_OneIntervalPerSink ==
    \A s \in Sinks :
        LET poll == IF s = "ntfy" THEN ntfyPoll ELSE discordPoll
        IN  /\ intervals[s] <= 1
            /\ intervals[s] = 1 <=> Has(poll.timer)
            /\ SinkOff(s) =>
                  /\ intervals[s] = 0
                  /\ ScheduledCount(posted, s) = 0

\* C11: the pub/sub poll was re-armed by a wind-unit change and is the only
\* live interval of its sink, while the webhook, which got its dispatch
\* earlier in the minute, was switched off and has none.
C11_Witness ==
    /\ Has(ntfyPoll.timer) /\ Val(ntfyPoll.timer).unit = "kts"
    /\ intervals["ntfy"] = 1
    /\ ~discordConfig.enabled /\ dispatched["discord"]
    /\ intervals["discord"] = 0

\* the value of every setting read at mount, by storage key
CurrentSettings ==
    [ k \in StoreKeys |-> IF k = "bw_unit" THEN JsonString(unit) ELSE Persisted(k) ]

\* the fallbacks the useState initialisers pass to readJson
Fallbacks ==
    [ bw_unit |-> JsonString("kmh"),
      bw_theme |-> JsonString("light"),
      bw_view_mode |-> JsonString("casual"),
      bw_ntfy |-> JsonNtfy(DefaultNtfy),
      bw_location |-> JsonLocation(DEFAULT_LOCATION),
      bw_temperature_unit |-> JsonString("celsius"),
      bw_discord_config |-> JsonDiscord(DefaultDiscord),
      bw_arc_reactor |-> JBool(TRUE) ]

\* C12: after any change of a persisted setting the store entry of every
\* setting is the setting's value: what readJson would return at a restart
\* is the value the setting has now.
C12_StoreFollowsSettings ==
    \A k \in StoreKeys : readJson(store, k, Fallbacks[k]) = CurrentSettings[k]

\* fallbacks a caller may pass to readJson
FallbackSamples == { JNull, JsonString("kmh"), JsonNtfy(DefaultNtfy) }

\* C13: readJson(key, d) after writeJson(key, v) returns a value equal to v,
\* for every JSON value v; and for an entry that is missing, empty or holds
\* text that is no JSON it returns d (and throws nothing).
C13_RoundTrip ==
    \A k \in StoreKeys : \A d \in FallbackSamples :
        readJson(store, k, d) =
            IF Has(store[k].given) THEN Val(store[k].given) ELSE d

\* C13: an object whose key and value both hold a quote and a backslash was
\* written and is stored as text.
C13_Witness ==
    /\ store[JsonKey].given =
          Some(JObj(<< << << "a", QUOTE >>, JStr(<< QUOTE, BACKSLASH >>) >> >>))
    /\ Has(store[JsonKey].raw)

\* C14: a failed pub/sub POST is logged and rethrown by the dispatcher; the
\* scheduled caller swallows the rejection (no error state, no unhandled
\* failure) and the manual "send now" caller surfaces it to the user.
C14_NtfyFailureHandling ==
    (report.sink = "ntfy" /\ report.outcome = "network") =>
        /\ report.logged >= 1
        /\ report.rejected
        /\ IF report.scheduled
           THEN ~report.unhandled /\ ~Has(err)
           ELSE Has(err)

\* C14: the part on the dispatcher alone: a rejected fetch is logged once
\* and the dispatcher's promise rejects.
C14_LoggedAndRethrown ==
    (report.sink = "ntfy" /\ report.outcome = "network") =>
        report.logged = 1 /\ report.rejected

\* C14: a manual send's POST failed on the network.
C14_Witness ==
    report.sink = "ntfy" /\ report.outcome = "network" /\ ~report.scheduled

\* C15: sendWeatherAlert issues a POST exactly when the config is enabled
\* and its URL is non-empty; when the POST ends with a non-2xx response or a
\* network failure the error is raised to the caller; the scheduled call
\* site swallows it, and it changes no application state.
C15_WebhookSend ==
    [][ /\ \A c \in DiscordConfigs :
              SendWeatherAlert(c, "msg") =>
                  (Len(posted') = 1 <=> (c.enabled /\ c.webhookUrl # ""))
        /\ \A i \in 1..Len(posted) : \A o \in Outcomes :
              (PostSettle(i, o) /\ posted[i].sink = "discord") =>
                  /\ report'.rejected <=> o # "ok"
                  /\ posted[i].scheduled => (report'.caught <=> o # "ok")
                  /\ ~report'.unhandled
                  /\ UNCHANGED << mounted, settingsVars, refreshVars, store,
                                  ntfyPoll, discordPoll, searchVars >> ]_vars

\* C15: a scheduled webhook POST got a non-2xx response, and the call site
\* caught the error.
C15_Witness ==
    /\ report.sink = "discord" /\ report.scheduled /\ report.outcome = "status"
    /\ report.caught

\* the upstream response has a value at position i of the array v
UpstreamHas(v, i) == Has(v) /\ i \in 1..Len(Val(v)) /\ Val(v)[i] # JNull

\* C16: the merged bundle has one sample per weather timestamp, in the
\* weather series' order; a sample's marine fields are those of a marine
\* entry with the identical timestamp string and are absent when no marine
\* entry has it; marine hours with no weather hour are dropped.
C16_MergedByTimestamp ==
    sel.done =>
        LET time == asStringArray(sel.weather.time)
            marineTime == asStringArray(sel.marine.time)
            waveHeight == asNumberArray(sel.marine.wave_height)
        IN  /\ Len(sel.hours) = Len(time)
            /\ \A i \in 1..Len(time) :
                  LET same == { j \in 1..Len(marineTime) : marineTime[j] = time[i] }
                  IN  /\ sel.hours[i].time = time[i]
                      /\ same = {} => ~Has(sel.hours[i].waveHeightM)
                      /\ same # {} =>
                            \E j \in same : sel.hours[i].waveHeightM = At(waveHeight, j)

\* C16: the two series list the same two hours in opposite orders, and a
\* marine hour the weather series lacks was dropped.
C16_Witness ==
    /\ sel.done
    /\ sel.weather.time = Some(<< "2024-05-01T07:00" >>)
    /\ sel.marine.time = Some(<< "2024-05-01T08:00", "2024-05-01T07:00" >>)
    /\ sel.marine.wave_height = Some(<< JNum(0), JNum(MaxNum) >>)
    /\ Len(sel.hours) = 1
    /\ sel.hours[1].waveHeightM = Some(MaxNum)

\* C17: for every hour and optional field, the field is absent in the
\* sample exactly when the upstream response had no value for it at that
\* hour (missing array, short array or null entry).
C17_AbsentIffOmitted ==
    sel.done =>
        \A i \in 1..Len(sel.hours) :
            LET mi == marineLookup(asStringArray(sel.marine.time),
                                   asStringArray(sel.weather.time), i)
            IN  /\ Has(sel.hours[i].windGusts10mKmh)
                      <=> UpstreamHas(sel.weather.wind_gusts_10m, i)
                /\ Has(sel.hours[i].waveHeightM)
                      <=> (Has(mi) /\ UpstreamHas(sel.marine.wave_height, Val(mi)))

\* C17: the same with a null entry left out of what counts as omitted:
\* absent exactly for a missing array, a short array or no marine hour.
C17_AbsentIffNoEntry ==
    sel.done =>
        \A i \in 1..Len(sel.hours) :
            LET mi == marineLookup(asStringArray(sel.marine.time),
                                   asStringArray(sel.weather.time), i)
            IN  /\ Has(sel.hours[i].windGusts10mKmh)
                      <=> (Has(sel.weather.wind_gusts_10m)
                             /\ i <= Len(Val(sel.weather.wind_gusts_10m)))
                /\ Has(sel.hours[i].waveHeightM)
                      <=> (Has(mi) /\ Has(sel.marine.wave_height)
                             /\ Val(mi) <= Len(Val(sel.marine.wave_height)))

\* the field texts of 'everything' mode when every present value is shown
PresentFields(h, u, tu) ==
    [ gust |-> IF Has(h.windGusts10mKmh)
               THEN "Gust " \o formatWindSpeed(Val(h.windGusts10mKmh), u) ELSE "",
      rain |-> IF Has(h.precipitationProbabilityPct)
               THEN "Rain " \o ToString(Val(h.precipitationProbabilityPct)) \o "%" ELSE "",
      pressure |-> IF Has(h.pressureMslHpa)
                   THEN ToString(Val(h.pressureMslHpa)) \o "hPa" ELSE "",
      vis |-> IF Has(h.visibilityM)
              THEN "Vis " \o toFixed1(RoundDiv(Val(h.visibilityM), 100)) \o "km" ELSE "",
      waves |-> IF Has(h.waveHeightM)
                THEN "Waves " \o toFixed1(Val(h.waveHeightM)) \o "m" ELSE "",
      water |-> IF Has(h.waterTempC)
                THEN "Water " \o formatTemperatureForDisplay(Val(h.waterTempC), tu)
                ELSE "" ]

\* C18: in 'everything' mode the message holds the text of an optional field
\* (gust, precipitation probability, pressure, visibility, wave height,
\* sea-surface temperature) exactly when the field is present in the sample,
\* a present 0 included.
C18_EveryPresentField ==
    (sel.done /\ sel.viewMode = "everything") =>
        sel.message = EverythingText(SampleBundle, sel.hour, sel.unit, sel.temperatureUnit,
                          PresentFields(sel.hour, sel.unit, sel.temperatureUnit))

\* C18: the same for the fields that are absent or not 0: a field's text is
\* in the message exactly when the field is present and not 0.
C18_EveryNonZeroField ==
    (sel.done /\ sel.viewMode = "everything") =>
        LET h == sel.hour
            f == EverythingFields(h, sel.unit, sel.temperatureUnit)
        IN  /\ sel.message = EverythingMessage(SampleBundle, h, sel.unit, sel.temperatureUnit)
            /\ f.gust # "" <=> Truthy(h.windGusts10mKmh)
            /\ f.rain # "" <=> Truthy(h.precipitationProbabilityPct)
            /\ f.pressure # "" <=> Truthy(h.pressureMslHpa)
            /\ f.vis # "" <=> Truthy(h.visibilityM)
            /\ f.waves # "" <=> Truthy(h.waveHeightM)
            /\ f.water # "" <=> Truthy(h.waterTempC)

\* C19: in casual mode the conditions line is "Rain N%" exactly when the
\* precipitation probability is present and above 30, and "Clear"
\* otherwise: 55 gives "Rain 55%"; 10, 30, 0 and an absent value give "Clear".
C19_RainAbove30 ==
    (sel.done /\ sel.viewMode = "casual") =>
        LET p == sel.hour.precipitationProbabilityPct
            f == CasualFields(sel.hour, sel.unit, sel.temperatureUnit)
            expected == IF Has(p) /\ Val(p) > 30
                        THEN "Rain " \o ToString(Val(p)) \o "%" ELSE "Clear"
        IN  /\ sel.message = CasualText(SampleBundle, sel.hour,
                                  [f EXCEPT !.conditions = expected])
            /\ p = Some(55) => f.conditions = "Rain 55%"
            /\ p \in {Some(10), Some(30), Some(0), None} => f.conditions = "Clear"

\* C19: the casual message was composed for a probability of exactly 30.
C19_Witness ==
    /\ sel.done /\ sel.viewMode = "casual"
    /\ sel.hour.precipitationProbabilityPct = Some(30)
    /\ sel.message = getCasualMessage(SampleBundle, sel.hour, sel.unit, sel.temperatureUnit)

\* the sample of 20 km/h from 45 degrees, 18 degrees Celsius and 10 % rain
C20_Sample == Hour(420, 200, 45, 180, Some(10), None, None)

\* C20: for a sample of wind 20 km/h, direction 45, temperature 18 and
\* precipitation probability 10, the casual message in km/h and Celsius
\* holds the wind text "20 km/h NE" and the temperature text "18degC",
\* the unit suffix included.
C20_CasualExample ==
    (sel.done /\ sel.viewMode = "casual" /\ sel.unit = "kmh"
        /\ sel.temperatureUnit = "celsius" /\ sel.hour = C20_Sample) =>
        sel.message = CasualText(SampleBundle, sel.hour,
                          [ wind |-> "20 km/h NE", temp |-> "18degC",
                            conditions |-> "Clear" ])

\* C20: the same sample with the temperature text as composed: "18deg",
\* the degree sign and no unit letter.
C20_CasualExampleNoLetter ==
    (sel.done /\ sel.viewMode = "casual" /\ sel.unit = "kmh"
        /\ sel.temperatureUnit = "celsius" /\ sel.hour = C20_Sample) =>
        sel.message = CasualText(SampleBundle, sel.hour,
                          [ wind |-> "20 km/h NE", temp |-> "18deg",
                            conditions |-> "Clear" ])

\* the 16 compass points
CompassPoints == { CompassDirs[i] : i \in 1..16 }

\* C21: degToCompass is periodic with period 360: for every degree value d,
\* negative ones included, degToCompass(d) and degToCompass(d + 360) are
\* the same one of the 16 compass points, never undefined.
C21_CompassPeriodic ==
    sel.done =>
        /\ sel.compass \in CompassPoints
        /\ sel.compass = sel.compassNext
        /\ sel.sender \in CompassPoints
        /\ sel.sender = sel.senderNext

\* C21: the same for degrees from 0 up in the app, and for every degree in
\* the standalone sender.
C21_CompassPeriodicFromZero ==
    sel.done =>
        /\ sel.deg >= 0 => (sel.compass \in CompassPoints /\ sel.compass = sel.compassNext)
        /\ sel.sender \in CompassPoints
        /\ sel.sender = sel.senderNext

\* C22: for every direction d in [0, 360), isSideOnshore(d) holds exactly
\* when d is in [315, 360), [0, 45) or [135, 225): true at 0, 135, 180 and
\* 315, false at 45, 90, 225 and 270; the surfer message says
\* "Side-onshore" in the first case and "Cross-shore" in the second.
C22_SideOnshoreSectors ==
    sel.done =>
        LET d == sel.hour.windDirection10mDeg
            inSector == (d >= 315 /\ d < 360) \/ (d >= 0 /\ d < 45) \/ (d >= 135 /\ d < 225)
        IN  /\ isSideOnshore(d) <=> inSector
            /\ d \in {0, 135, 180, 315} => isSideOnshore(d)
            /\ d \in {45, 90, 225, 270} => ~isSideOnshore(d)
            /\ sel.message =
                  SurferText(ForecastBundle(DEFAULT_LOCATION, << >>), sel.hour, "kmh",
                             "celsius",
                             [ SurferFields(sel.hour) EXCEPT
                                 !.windType = IF inSector THEN "Side-onshore"
                                              ELSE "Cross-shore" ])

\* C22: the surfer message was composed for a wind from exactly 225 degrees.
C22_Witness ==
    /\ sel.done /\ sel.hour.windDirection10mDeg = 225
    /\ sel.message = SurferMessage(ForecastBundle(DEFAULT_LOCATION, << >>), sel.hour,
                                    "kmh", "celsius")

\* C23: the wind rating is "Light" below 16 km/h, "Moderate" from 16 to
\* below 30 and "Strong+" from 30 on: 15.9 is Light, 16 and 29.9 are
\* Moderate, 30 is Strong+.
C23_RatingBands ==
    sel.done =>
        LET v == sel.hour.windSpeed10mKmh
            expected == IF v < 160 THEN "Light"
                        ELSE IF v < 300 THEN "Moderate" ELSE "Strong+"
            r == SurferFields(sel.hour).windRating
        IN  /\ r.rating = expected
            /\ v = 159 => r.rating = "Light"
            /\ v \in {160, 299} => r.rating = "Moderate"
            /\ v = 300 => r.rating = "Strong+"
            /\ sel.message =
                  SurferText(ForecastBundle(DEFAULT_LOCATION, << >>), sel.hour, "kmh",
                             "celsius",
                             [ SurferFields(sel.hour) EXCEPT !.windRating.rating = expected ])

\* C23: the surfer message was composed for a wind of exactly 16 km/h.
C23_Witness ==
    /\ sel.done /\ sel.hour.windSpeed10mKmh = 160
    /\ sel.message = SurferMessage(ForecastBundle(DEFAULT_LOCATION, << >>), sel.hour,
                                    "kmh", "celsius")

\* C24: for every bundle, sample, wind unit and temperature unit the message
\* composed in view mode "custom" is the message composed in view mode
\* "casual", whatever the custom field selection is.
C24_CustomIsCasual ==
    (sel.done /\ sel.viewMode = "custom") =>
        sel.message = getViewModeSpecificMessage(SampleBundle, sel.hour, sel.unit,
                                                 sel.temperatureUnit, "casual")

\* C24: a custom-mode message was composed with card details picked, for a
\* sample that has gusts and waves.
C24_Witness ==
    /\ sel.done /\ sel.viewMode = "custom"
    /\ Len(sel.customSettings.cardDetails) > 0
    /\ Truthy(sel.hour.windGusts10mKmh) /\ Truthy(sel.hour.waveHeightM)
    /\ sel.message = getCasualMessage(SampleBundle, sel.hour, sel.unit, sel.temperatureUnit)

\* C25: the sample of a scheduled notification is the sample of the current
\* bundle nearest to the wall-clock time of the dispatch: the current
\* sample is selected again as time passes.
C25_NearestAtDispatch ==
    \A i \in 1..Len(posted) :
        posted[i].scheduled =>
            /\ Has(bundle) /\ Has(nowHourOf(bundle, clock))
            /\ posted[i].body =
                  getViewModeSpecificMessage(Val(bundle), Val(nowHourOf(bundle, clock)),
                                             unit, temperatureUnit, viewMode)

\* C25: the sample of a scheduled notification is the one memoised when
\* the bundle was set, whatever the time of the dispatch.
C25_NearestAtRefresh ==
    \A i \in 1..Len(posted) :
        posted[i].scheduled =>
            /\ Has(bundle) /\ Has(nowHour)
            /\ posted[i].body =
                  getViewModeSpecificMessage(Val(bundle), Val(nowHour),
                                             unit, temperatureUnit, viewMode)

\* C26: the loading flag is true whenever at least one forecast fetch is in
\* flight and false when none is, under every interleaving of overlapping
\* refreshes.
C26_LoadingIffInflight ==
    mounted => (loading <=> InflightCount > 0)

\* C26: one direction only: whenever no fetch is in flight the flag is
\* false.
C26_LoadingFalseWhenIdle ==
    (mounted /\ InflightCount = 0) => ~loading

\* C27: once the search text has been cleared (by the user or by selecting
\* a location) the result list stays empty until the text is non-blank
\* again, even if a lookup started earlier completes afterwards; the
\* displayed results always belong to the current search text.
C27_ResultsOfCurrentText ==
    mounted =>
        /\ Trim(search) = "" => searchResults = << >>
        /\ \A i \in 1..Len(searchResults) : searchResults[i].query = Trim(search)

\* C27: the step that clears the text (or selects a location) leaves the
\* list empty.
C27_ClearedAtOnce ==
    [][ (mounted /\ Trim(search') = "" /\ search' # search) => searchResults' = << >> ]_vars

\* C28: pressing the send button of the pub/sub panel while the topic is
\* empty issues no POST, sets a generated non-empty topic and enabled =
\* true, and leaves the configured schedule entries unchanged.
C28_AutoTopicKeepsSchedule ==
    [][ (OnSend /\ ntfy.topic = "") =>
          /\ posted' = << >>
          /\ ntfy'.topic # "" /\ ntfy'.enabled
          /\ ntfy'.schedule = ntfy.schedule ]_vars

\* C28: the same without the schedule: no POST, a generated non-empty topic
\* and enabled = true; the schedule is empty afterwards.
C28_AutoTopicEmptiesSchedule ==
    [][ (OnSend /\ ntfy.topic = "") =>
          /\ posted' = << >>
          /\ ntfy'.topic # "" /\ ntfy'.enabled
          /\ ntfy'.schedule = << >> ]_vars

\* C29: the webhook "Test Connection" action reports success exactly when
\* the configuration entered in the form is enabled, has a webhook URL and
\* a test POST to that URL gets a 2xx response; it reports failure
\* otherwise.
C29_TestReportsFormConfig ==
    [][ \A o \in Outcomes :
          HandleTest(o) =>
              IF sel.config.enabled /\ sel.config.webhookUrl # "" /\ o = "ok"
              THEN sel'.testResult = TestSucceeded
              ELSE sel'.testResult = TestFailed ]_vars

\* C29: the action reports failure whatever the form holds, and a service
\* built from a config reports success exactly when that config is enabled,
\* has a URL and the POST gets a 2xx response.
C29_TestReportsSingleton ==
    /\ sel.tested => sel.testResult = TestFailed
    /\ \A c \in DiscordConfigs : \A o \in Outcomes :
          testConnection(c, o) <=> (c.enabled /\ c.webhookUrl # "" /\ o = "ok")

\* C30: in the standalone sender an explicit non-empty send-hours list takes
\* precedence over the per-day count; with an empty list and a per-day
\* count N in 1..24 the number of hours in 0..23 at which the script goes on
\* to send is exactly N, and with N <= 0 it never sends.
C30_SendHours ==
    sel.done =>
        IF Len(sel.hoursList) # 0
        THEN sel.sent = { sel.hoursList[i] : i \in 1..Len(sel.hoursList) }
        ELSE /\ sel.sendsPerDay \in 1..24 => Cardinality(sel.sent) = sel.sendsPerDay
             /\ sel.sendsPerDay <= 0 => sel.sent = {}

\* C30: the same with the count of sends as the script makes it: with an
\* empty list and N >= 1 it sends at the multiples of floor(24 / min(24, N)),
\* which are N hours exactly when N divides 24.
C30_SendHoursByInterval ==
    sel.done =>
        IF Len(sel.hoursList) # 0
        THEN sel.sent = { sel.hoursList[i] : i \in 1..Len(sel.hoursList) }
        ELSE /\ sel.sendsPerDay >= 1 =>
                  LET interval == 24 \div Min(24, sel.sendsPerDay)
                  IN  /\ sel.sent = { h \in 0..23 : h % interval = 0 }
                      /\ (sel.sendsPerDay <= 24 /\ 24 % sel.sendsPerDay = 0)
                            => Cardinality(sel.sent) = sel.sendsPerDay
             /\ sel.sendsPerDay <= 0 => sel.sent = {}

=============================================================================
